---- MODULE Spec2Model ----
(***************************************************************************)
(* Windows-Use: the accessibility-tree traversal and classification engine *)
(* (windows_use/tree/__init__.py).                                         *)
(*                                                                         *)
(* A control of the platform tree is a record of what the uiautomation     *)
(* queries return for it; `fail` names the one query of the control that   *)
(* raises ("none" when all answer).  Python functions that can raise are   *)
(* operators returning [raised, val]; try/except is Catch.                 *)
(***************************************************************************)
EXTENDS Integers, Sequences, FiniteSets, TLC

(***************************************************************************)
(* Bounds of the model.                                                    *)
(***************************************************************************)
MaxNodes == 3
MaxApps == 2
MaxCoord == 2

(***************************************************************************)
(* Strings are sequences of characters, so that str.strip, str.title and   *)
(* str.capitalize are computed and not assumed.                            *)
(***************************************************************************)
Lowers == <<"a","b","c","d","e","f","g","h","i","j","k","l","m",
            "n","o","p","q","r","s","t","u","v","w","x","y","z">>
Uppers == <<"A","B","C","D","E","F","G","H","I","J","K","L","M",
            "N","O","P","Q","R","S","T","U","V","W","X","Y","Z">>

IndexIn(ch, alphabet) ==
    IF \E i \in 1..Len(alphabet) : alphabet[i] = ch
    THEN CHOOSE i \in 1..Len(alphabet) : alphabet[i] = ch
    ELSE 0

IsCased(ch) == IndexIn(ch, Lowers) > 0 \/ IndexIn(ch, Uppers) > 0

upper(ch) == IF IndexIn(ch, Lowers) > 0 THEN Uppers[IndexIn(ch, Lowers)] ELSE ch

lower(ch) == IF IndexIn(ch, Uppers) > 0 THEN Lowers[IndexIn(ch, Uppers)] ELSE ch

\* str.title(): a cased character is upper-cased when it follows an uncased
\* one (or starts the string) and lower-cased otherwise.
title(s) ==
    [i \in 1..Len(s) |->
        IF i = 1 \/ ~IsCased(s[i-1]) THEN upper(s[i]) ELSE lower(s[i])]

\* str.capitalize(): first character upper-cased, the rest lower-cased.
capitalize(s) ==
    [i \in 1..Len(s) |-> IF i = 1 THEN upper(s[i]) ELSE lower(s[i])]

\* The characters str.strip() removes, as far as the inputs have them.
Whitespace == {" ", "\t", "\n"}

RECURSIVE lstrip(_)
lstrip(s) == IF s # <<>> /\ Head(s) \in Whitespace THEN lstrip(Tail(s)) ELSE s

RECURSIVE rstrip(_)
rstrip(s) ==
    IF s # <<>> /\ s[Len(s)] \in Whitespace THEN rstrip(SubSeq(s, 1, Len(s) - 1)) ELSE s

\* str.strip()
strip(s) == rstrip(lstrip(s))

\* The sentinel "''" of `x or "''"`.
EmptyMarker == <<"'", "'">>

\* Faulty variant: the string is kept as it is, empty or not.
or_nothing(s) == s

\* Python `s or "''"` on a string: the empty string is falsy.
OrEmptyMarker(s) == IF s = <<>> THEN EmptyMarker ELSE s

(***************************************************************************)
(* Vocabulary: control-type names, localized control types, action verbs.  *)
(***************************************************************************)
W_button == <<"b","u","t","t","o","n">>
W_edit == <<"e","d","i","t">>
W_Edit == <<"E","d","i","t">>
W_group == <<"g","r","o","u","p">>
W_text == <<"t","e","x","t">>
W_heading == <<"h","e","a","d","i","n","g">>
W_link == <<"l","i","n","k">>
W_item == <<"i","t","e","m">>
W_list_item == <<"l","i","s","t"," ","i","t","e","m">>
W_image == <<"i","m","a","g","e">>
W_graphic == <<"g","r","a","p","h","i","c">>
W_pane == <<"p","a","n","e">>
W_click == <<"c","l","i","c","k">>
W_Click == <<"C","l","i","c","k">>
W_Invoke == <<"I","n","v","o","k","e">>
W_Desktop == <<"D","e","s","k","t","o","p">>

\* windows_use/tree/config.py is not part of the sources at hand: the three
\* allow-lists follow the specification's description of them.
INTERACTIVE_CONTROL_TYPE_NAMES ==
    {"ButtonControl", "EditControl", "HyperlinkControl", "ListItemControl",
     "ImageControl"}

INFORMATIVE_CONTROL_TYPE_NAMES == {"TextControl", "ImageControl"}

DEFAULT_ACTIONS == {W_Click, W_Invoke}

\* is_keyboard_focusable's inline allow-list.
FOCUSABLE_CONTROL_TYPE_NAMES ==
    {"EditControl", "ButtonControl", "CheckBoxControl", "RadioButtonControl",
     "TabItemControl"}

(***************************************************************************)
(* Results of Python calls that may raise.                                 *)
(***************************************************************************)
Ret(v) == [raised |-> FALSE, val |-> v]

Exc == [raised |-> TRUE, val |-> FALSE]

\* try: ... except Exception: return False
Catch(r) == IF r.raised THEN Ret(FALSE) ELSE r

\* The query q of control c raises.
Fails(c, q) == c.fail = q

(***************************************************************************)
(* uiautomation.Rect                                                       *)
(***************************************************************************)
width(box) == box.right - box.left

height(box) == box.bottom - box.top

isempty(box) == width(box) = 0 \/ height(box) = 0

xcenter(box) == box.left + (width(box) \div 2)

ycenter(box) == box.top + (height(box) \div 2)

(***************************************************************************)
(* Classifier predicates (closures of Tree.get_nodes).                     *)
(***************************************************************************)
is_element_visible(node, threshold) ==
    IF Fails(node, "IsControlElement") \/ Fails(node, "BoundingRectangle")
    THEN Exc
    ELSE IF isempty(node.BoundingRectangle) THEN Ret(FALSE)
    ELSE IF Fails(node, "IsOffscreen") THEN Exc
    ELSE IF node.IsOffscreen /\ Fails(node, "ControlTypeName") THEN Exc
    ELSE LET area == width(node.BoundingRectangle) * height(node.BoundingRectangle)
             is_offscreen == (~node.IsOffscreen) \/ node.ControlTypeName \in {"EditControl"}
         IN  Ret(area > threshold /\ is_offscreen /\ node.IsControlElement)

is_element_enabled(node) ==
    Catch(IF Fails(node, "IsEnabled") THEN Exc ELSE Ret(node.IsEnabled))

is_default_action(node) ==
    IF Fails(node, "GetLegacyIAccessiblePattern") THEN Exc
    ELSE Ret(title(node.DefaultAction) \in DEFAULT_ACTIONS)

\* isinstance(node, ImageControl): uiautomation builds the Python class from
\* the control type when the handle is created.
is_element_image(node) ==
    IF node.ControlTypeName = "ImageControl"
    THEN IF Fails(node, "LocalizedControlType") THEN Exc
         ELSE IF node.LocalizedControlType = W_graphic THEN Ret(TRUE)
         ELSE IF Fails(node, "IsKeyboardFocusable") THEN Exc
         ELSE Ret(~node.IsKeyboardFocusable)
    ELSE Ret(FALSE)

is_keyboard_focusable(node) ==
    Catch(IF Fails(node, "ControlTypeName") THEN Exc
          ELSE IF node.ControlTypeName \in FOCUSABLE_CONTROL_TYPE_NAMES THEN Ret(TRUE)
          ELSE IF Fails(node, "IsKeyboardFocusable") THEN Exc
          ELSE Ret(node.IsKeyboardFocusable))

\* Python `a and b`, `a or b`, `not a` on calls that may raise: b is
\* evaluated only when a does not decide the result.
AndThen(a, b) == IF a.raised \/ ~a.val THEN a ELSE b

OrElse(a, b) == IF a.raised \/ a.val THEN a ELSE b

Not(a) == IF a.raised THEN a ELSE Ret(~a.val)

is_element_text(node) ==
    Catch(IF Fails(node, "ControlTypeName") THEN Exc
          ELSE IF node.ControlTypeName \in INFORMATIVE_CONTROL_TYPE_NAMES
               THEN AndThen(is_element_visible(node, 0),
                      AndThen(is_element_enabled(node),
                              Not(is_element_image(node))))
               ELSE Ret(FALSE))

\* read is 1 for the fetch of the pattern in is_element_scrollable and 2 for
\* the fetch of tree_traversal when it emits the node.
GetScrollPattern(node, read) ==
    IF Fails(node, "GetScrollPattern") \/ ~node.ScrollPattern[read].supported
    THEN Exc
    ELSE Ret(TRUE)

is_element_scrollable(node) ==
    Catch(IF GetScrollPattern(node, 1).raised THEN Exc
          ELSE Ret(node.ScrollPattern[1].VerticallyScrollable
                   \/ node.ScrollPattern[1].HorizontallyScrollable))

\* Faulty variant: the browser relaxation applied to every application (the two
\* group branches merged into the browser one).
is_element_interactive_relaxed_everywhere(node, is_browser) ==
    Catch(IF Fails(node, "ControlTypeName") THEN Exc
          ELSE IF node.ControlTypeName \in INTERACTIVE_CONTROL_TYPE_NAMES
               THEN AndThen(is_element_visible(node, 0),
                      AndThen(is_element_enabled(node),
                        AndThen(Not(is_element_image(node)),
                                is_keyboard_focusable(node))))
          ELSE IF node.ControlTypeName = "GroupControl"
               THEN AndThen(is_element_visible(node, 0),
                      AndThen(is_element_enabled(node),
                              OrElse(is_default_action(node),
                                     is_keyboard_focusable(node))))
          ELSE Ret(FALSE))

is_element_interactive(node, is_browser) ==
    Catch(IF Fails(node, "ControlTypeName") THEN Exc
          ELSE IF node.ControlTypeName \in INTERACTIVE_CONTROL_TYPE_NAMES
               THEN AndThen(is_element_visible(node, 0),
                      AndThen(is_element_enabled(node),
                        AndThen(Not(is_element_image(node)),
                                is_keyboard_focusable(node))))
          ELSE IF node.ControlTypeName = "GroupControl" /\ is_browser
               THEN AndThen(is_element_visible(node, 0),
                      AndThen(is_element_enabled(node),
                              OrElse(is_default_action(node),
                                     is_keyboard_focusable(node))))
          ELSE IF node.ControlTypeName = "GroupControl" /\ ~is_browser
               THEN AndThen(is_element_visible(node, 0),
                      AndThen(is_element_enabled(node),
                              is_default_action(node)))
          ELSE Ret(FALSE))

(***************************************************************************)
(* The tree of one application: controls[1] is the application's window,   *)
(* parent[i] < i is the parent of control i (parent[1] = 0); the children  *)
(* of a control are in increasing order of their index.                    *)
(***************************************************************************)
Ids(app) == [i \in 1..Len(app.controls) |-> i]

GetChildren(app, n) == SelectSeq(Ids(app), LAMBDA i : app.parent[i] = n)

\* None is 0.
GetFirstChildControl(app, n) ==
    IF GetChildren(app, n) = <<>> THEN 0 ELSE Head(GetChildren(app, n))

(***************************************************************************)
(* windows_use/tree/views.py: the emitted records.  `controls` and `by`    *)
(* are history fields, not part of the Python records: the controls whose  *)
(* name or geometry the entry carries, and the function that appended it.  *)
(***************************************************************************)
BoundingBox(box) ==
    [left |-> box.left, top |-> box.top, right |-> box.right,
     bottom |-> box.bottom, width |-> width(box), height |-> height(box)]

Center(x, y) == [x |-> x, y |-> y]

TreeElementNode(name, control_type, shortcut, bounding_box, center, app_name, controls, by) ==
    [name |-> name, control_type |-> control_type, shortcut |-> shortcut,
     bounding_box |-> bounding_box, center |-> center, app_name |-> app_name,
     controls |-> controls, by |-> by]

TextElementNode(name, app_name, controls) ==
    [name |-> name, app_name |-> app_name, controls |-> controls,
     by |-> "tree_traversal"]

ScrollElementNode(name, app_name, control_type, bounding_box, center, horizontal_scrollable, vertical_scrollable, controls) ==
    [name |-> name, app_name |-> app_name, control_type |-> control_type,
     bounding_box |-> bounding_box, center |-> center,
     horizontal_scrollable |-> horizontal_scrollable,
     vertical_scrollable |-> vertical_scrollable, controls |-> controls,
     by |-> "tree_traversal"]

(***************************************************************************)
(* windows_use/tree/utils.py is not part of the sources at hand.  From the *)
(* specification: a point sampled inside the bounding box shrunk about its *)
(* centre by scale_factor = num/den.  rnd.x, rnd.y in 0..RandMax are the   *)
(* draws of the random generator for this call.                            *)
(***************************************************************************)
RandMax == 2

random_point_within_bounding_box(box, num, den, rnd) ==
    LET scaled_width == (width(box) * num) \div den
        scaled_height == (height(box) * num) \div den
        scaled_left == box.left + ((width(box) - scaled_width) \div 2)
        scaled_top == box.top + ((height(box) - scaled_height) \div 2)
    IN  Center(scaled_left + ((scaled_width * rnd.x) \div RandMax),
               scaled_top + ((scaled_height * rnd.y) \div RandMax))

\* The draws of the call made for control n.
DrawFor(rnd, n) ==
    [x |-> (rnd.x + n) % (RandMax + 1), y |-> (rnd.y + 2 * n) % (RandMax + 1)]

(***************************************************************************)
(* The state of one get_nodes call: its three lists, the controls passed   *)
(* to tree_traversal so far (history), the calls of dom_correction with    *)
(* the lists before and after each (history), and whether an exception     *)
(* left the call.                                                          *)
(***************************************************************************)
NewLists ==
    [interactive_nodes |-> <<>>, informative_nodes |-> <<>>,
     scrollable_nodes |-> <<>>, visited |-> <<>>, corrections |-> <<>>,
     raised |-> FALSE]

\* The three lists of a call's state.
ListsOf(st) ==
    [interactive_nodes |-> st.interactive_nodes,
     informative_nodes |-> st.informative_nodes,
     scrollable_nodes |-> st.scrollable_nodes]

Raise(st) == [st EXCEPT !.raised = TRUE]

\* Faulty variant: the oldest entry is removed instead of the newest.
pop_oldest(list) == SubSeq(list, 2, Len(list))

pop(list) == SubSeq(list, 1, Len(list) - 1)

element_has_child_element(app, n, control_type, child_control_type) ==
    LET node == app.controls[n]
        first_child == GetFirstChildControl(app, n)
    IN  IF Fails(node, "LocalizedControlType") THEN Exc
        ELSE IF node.LocalizedControlType = control_type
             THEN IF Fails(node, "GetFirstChildControl") THEN Exc
                  ELSE IF first_child = 0 THEN Ret(FALSE)
                  ELSE IF Fails(app.controls[first_child], "LocalizedControlType") THEN Exc
                  ELSE Ret(app.controls[first_child].LocalizedControlType = child_control_type)
             ELSE Ret(FALSE)

group_has_no_name(node) ==
    Catch(IF Fails(node, "ControlTypeName") THEN Exc
          ELSE IF node.ControlTypeName = "GroupControl"
               THEN IF Fails(node, "Name") THEN Exc
                    ELSE Ret(strip(node.Name) = <<>>)
               ELSE Ret(FALSE))

\* while child.GetFirstChildControl() is not None: child = child.GetFirstChildControl()
RECURSIVE deepest_first_child(_, _)
deepest_first_child(app, child) ==
    IF Fails(app.controls[child], "GetFirstChildControl")
    THEN [raised |-> TRUE, val |-> child]
    ELSE IF GetFirstChildControl(app, child) = 0
         THEN [raised |-> FALSE, val |-> child]
         ELSE deepest_first_child(app, GetFirstChildControl(app, child))

\* dom_correction's second branch, after group_has_no_name(node) held.
expand_unnamed_group(app, app_name, n, st) ==
    LET node == app.controls[n]
        popped == [st EXCEPT !.interactive_nodes = pop(@)]
        deepest == deepest_first_child(app, n)
        child == app.controls[deepest.val]
        box == node.BoundingRectangle
    IN  IF ~is_keyboard_focusable(node).val THEN popped
        ELSE IF deepest.raised THEN popped
        ELSE IF Fails(child, "ControlTypeName") THEN Raise(popped)
        ELSE IF child.ControlTypeName # "TextControl" THEN popped
        ELSE IF Fails(node, "BoundingRectangle") \/ Fails(child, "Name")
                \/ Fails(node, "AcceleratorKey") THEN Raise(popped)
        ELSE [popped EXCEPT !.interactive_nodes = Append(@,
                TreeElementNode(OrEmptyMarker(strip(child.Name)), W_Edit,
                    OrEmptyMarker(node.AcceleratorKey), BoundingBox(box),
                    Center(xcenter(box), ycenter(box)), app_name,
                    {n, deepest.val}, "dom_correction"))]

\* Faulty variant: the promoted entry keeps the center of the link (node is not
\* rebound to the heading before the center is computed).
promote_heading_link_center(app, app_name, n, st) ==
    LET popped == [st EXCEPT !.interactive_nodes = pop(@)]
        first_child == GetFirstChildControl(app, n)
        node == app.controls[first_child]
        box == node.BoundingRectangle
        link_box == app.controls[n].BoundingRectangle
    IN  IF Fails(app.controls[n], "GetFirstChildControl") THEN Raise(popped)
        ELSE IF Fails(node, "BoundingRectangle") \/ Fails(node, "Name")
                \/ Fails(node, "AcceleratorKey") THEN Raise(popped)
        ELSE [popped EXCEPT !.interactive_nodes = Append(@,
                TreeElementNode(OrEmptyMarker(strip(node.Name)), W_link,
                    OrEmptyMarker(node.AcceleratorKey), BoundingBox(box),
                    Center(xcenter(link_box), ycenter(link_box)), app_name,
                    {first_child}, "dom_correction"))]

\* Faulty variant: the promoted entry keeps the bounding box and the center of
\* the link and takes only the name of the heading.
promote_heading_link_box(app, app_name, n, st) ==
    LET popped == [st EXCEPT !.interactive_nodes = pop(@)]
        first_child == GetFirstChildControl(app, n)
        node == app.controls[first_child]
        box == app.controls[n].BoundingRectangle
    IN  IF Fails(app.controls[n], "GetFirstChildControl") THEN Raise(popped)
        ELSE IF Fails(node, "BoundingRectangle") \/ Fails(node, "Name")
                \/ Fails(node, "AcceleratorKey") THEN Raise(popped)
        ELSE [popped EXCEPT !.interactive_nodes = Append(@,
                TreeElementNode(OrEmptyMarker(strip(node.Name)), W_link,
                    OrEmptyMarker(node.AcceleratorKey), BoundingBox(box),
                    Center(xcenter(box), ycenter(box)), app_name,
                    {first_child}, "dom_correction"))]

\* dom_correction's third branch, after element_has_child_element(node,'link','heading').
promote_heading(app, app_name, n, st) ==
    LET popped == [st EXCEPT !.interactive_nodes = pop(@)]
        first_child == GetFirstChildControl(app, n)
        node == app.controls[first_child]
        box == node.BoundingRectangle
    IN  IF Fails(app.controls[n], "GetFirstChildControl") THEN Raise(popped)
        ELSE IF Fails(node, "BoundingRectangle") \/ Fails(node, "Name")
                \/ Fails(node, "AcceleratorKey") THEN Raise(popped)
        ELSE [popped EXCEPT !.interactive_nodes = Append(@,
                TreeElementNode(OrEmptyMarker(strip(node.Name)), W_link,
                    OrEmptyMarker(node.AcceleratorKey), BoundingBox(box),
                    Center(xcenter(box), ycenter(box)), app_name,
                    {first_child}, "dom_correction"))]

\* Faulty variant: the link/heading promotion is tried before the unnamed-group
\* expansion.
dom_correction_heading_first(app, app_name, n, st) ==
    LET node == app.controls[n]
        list_item_link == OrElse(element_has_child_element(app, n, W_list_item, W_link),
                                 element_has_child_element(app, n, W_item, W_link))
        link_heading == element_has_child_element(app, n, W_link, W_heading)
    IN  IF list_item_link.raised THEN Raise(st)
        ELSE IF list_item_link.val THEN [st EXCEPT !.interactive_nodes = pop(@)]
        ELSE IF link_heading.raised THEN Raise(st)
        ELSE IF link_heading.val THEN promote_heading(app, app_name, n, st)
        ELSE IF group_has_no_name(node).val THEN expand_unnamed_group(app, app_name, n, st)
        ELSE st

dom_correction(app, app_name, n, st) ==
    LET node == app.controls[n]
        list_item_link == OrElse(element_has_child_element(app, n, W_list_item, W_link),
                                 element_has_child_element(app, n, W_item, W_link))
        link_heading == element_has_child_element(app, n, W_link, W_heading)
    IN  IF list_item_link.raised THEN Raise(st)
        ELSE IF list_item_link.val THEN [st EXCEPT !.interactive_nodes = pop(@)]
        ELSE IF group_has_no_name(node).val THEN expand_unnamed_group(app, app_name, n, st)
        ELSE IF link_heading.raised THEN Raise(st)
        ELSE IF link_heading.val THEN promote_heading(app, app_name, n, st)
        ELSE st

\* Line 192's call of dom_correction(node), recorded with the lists it was
\* given and the lists it left.
corrected(n, before, after) ==
    [after EXCEPT !.corrections = Append(@,
        [node |-> n, before |-> ListsOf(before), after |-> ListsOf(after),
         raised |-> after.raised])]

\* tree_traversal's three-way classification of one control (lines 179-212).
classify(app, app_name, rnd, n, st) ==
    LET node == app.controls[n]
        box == node.BoundingRectangle
        second == node.ScrollPattern[2]
    IN  IF is_element_interactive(node, app.is_browser).val
        THEN IF Fails(node, "BoundingRectangle") \/ Fails(node, "Name")
                \/ Fails(node, "LocalizedControlType") \/ Fails(node, "AcceleratorKey")
             THEN Raise(st)
             ELSE LET appended == [st EXCEPT !.interactive_nodes = Append(@,
                          TreeElementNode(OrEmptyMarker(strip(node.Name)),
                              title(node.LocalizedControlType),
                              OrEmptyMarker(node.AcceleratorKey), BoundingBox(box),
                              random_point_within_bounding_box(box, 1, 2, DrawFor(rnd, n)),
                              app_name, {n}, "tree_traversal"))]
                  IN  IF app.is_browser
                      THEN corrected(n, appended, dom_correction(app, app_name, n, appended))
                      ELSE appended
        ELSE IF is_element_text(node).val
        THEN IF Fails(node, "Name") THEN Raise(st)
             ELSE [st EXCEPT !.informative_nodes = Append(@,
                      TextElementNode(OrEmptyMarker(strip(node.Name)), app_name, {n}))]
        ELSE IF is_element_scrollable(node).val
        THEN IF GetScrollPattern(node, 2).raised \/ Fails(node, "BoundingRectangle")
                \/ Fails(node, "Name") \/ Fails(node, "LocalizedControlType")
             THEN Raise(st)
             ELSE [st EXCEPT !.scrollable_nodes = Append(@,
                      ScrollElementNode(
                          IF strip(node.Name) # <<>> THEN strip(node.Name)
                          ELSE OrEmptyMarker(capitalize(node.LocalizedControlType)),
                          app_name, title(node.LocalizedControlType), BoundingBox(box),
                          random_point_within_bounding_box(box, 4, 5, DrawFor(rnd, n)),
                          second.HorizontallyScrollable, second.VerticallyScrollable,
                          {n}))]
        ELSE st

\* Line 215: the child is skipped.  Python's `and` reads ControlTypeName only
\* for an off-screen child and ClassName only for an off-screen non-edit one.
skip_child(child) ==
    IF Fails(child, "IsOffscreen") THEN Exc
    ELSE IF ~child.IsOffscreen THEN Ret(FALSE)
    ELSE IF Fails(child, "ControlTypeName") THEN Exc
    ELSE IF child.ControlTypeName = "EditControl" THEN Ret(FALSE)
    ELSE IF Fails(child, "ClassName") THEN Exc
    ELSE Ret(child.ClassName # "Popup")

RECURSIVE tree_traversal(_, _, _, _, _)
RECURSIVE traverse_children(_, _, _, _, _)
tree_traversal(app, app_name, rnd, n, st) ==
    LET classified == classify(app, app_name, rnd, n,
                               [st EXCEPT !.visited = Append(@, n)])
    IN  IF classified.raised THEN classified
        ELSE IF Fails(app.controls[n], "GetChildren") THEN Raise(classified)
        ELSE traverse_children(app, app_name, rnd, GetChildren(app, n), classified)

\* for child in node.GetChildren(): ... (lines 214-217)
traverse_children(app, app_name, rnd, children, st) ==
    IF st.raised \/ children = <<>> THEN st
    ELSE LET child == Head(children)
             skip == skip_child(app.controls[child])
         IN  IF skip.raised THEN Raise(st)
             ELSE IF skip.val
                  THEN traverse_children(app, app_name, rnd, Tail(children), st)
                  ELSE traverse_children(app, app_name, rnd, Tail(children),
                           tree_traversal(app, app_name, rnd, child, st))

get_nodes(app, rnd) ==
    LET node == app.controls[1]
        app_name == IF node.ClassName = "Progman" THEN W_Desktop ELSE strip(node.Name)
    IN  IF Fails(node, "Name") \/ Fails(node, "ClassName") THEN Raise(NewLists)
        ELSE tree_traversal(app, app_name, rnd, 1, NewLists)

(***************************************************************************)
(* The platform: what the controls of the desktop can answer.              *)
(***************************************************************************)
Queries ==
    {"Name", "ClassName", "BoundingRectangle", "GetScrollPattern", "GetChildren",
     "IsOffscreen", "GetFirstChildControl", "AcceleratorKey", "IsControlElement",
     "IsEnabled", "GetLegacyIAccessiblePattern", "IsKeyboardFocusable",
     "LocalizedControlType", "ControlTypeName"}

\* A control type name with a localized control type the platform reports for it.
TypePairs ==
    {<<"ButtonControl", W_button>>, <<"EditControl", W_edit>>,
     <<"HyperlinkControl", W_link>>, <<"ListItemControl", W_list_item>>,
     <<"ListItemControl", W_item>>, <<"GroupControl", W_group>>,
     <<"TextControl", W_text>>, <<"TextControl", W_heading>>,
     <<"ImageControl", W_image>>, <<"ImageControl", W_graphic>>,
     <<"PaneControl", W_pane>>}

Rects ==
    {r \in [left : 0..MaxCoord, top : 0..MaxCoord, right : 0..MaxCoord, bottom : 0..MaxCoord] :
        r.left <= r.right /\ r.top <= r.bottom}

FullRect == [left |-> 0, top |-> 0, right |-> MaxCoord, bottom |-> MaxCoord]

\* width 0 and height 0
ZeroRect == [left |-> 0, top |-> 0, right |-> 0, bottom |-> 0]

NoPattern ==
    [supported |-> FALSE, HorizontallyScrollable |-> FALSE, VerticallyScrollable |-> FALSE]

Pattern(h, v) ==
    [supported |-> TRUE, HorizontallyScrollable |-> h, VerticallyScrollable |-> v]

ScrollReads == {NoPattern} \cup {Pattern(h, v) : h, v \in BOOLEAN}

\* The same answer at both fetches of the scroll pattern.
Stable(read) == <<read, read>>

Names == {<<>>, <<" ">>, <<"a">>, <<" ", "a", " ">>}

\* An on-screen, enabled, focusable, named control of the given type that
\* answers every query and has no scroll pattern.
Plain(pair) ==
    [ControlTypeName |-> pair[1], LocalizedControlType |-> pair[2],
     Name |-> <<"a">>, ClassName |-> "Chrome_WidgetWin_1",
     BoundingRectangle |-> FullRect, IsOffscreen |-> FALSE,
     IsControlElement |-> TRUE, IsEnabled |-> TRUE, IsKeyboardFocusable |-> TRUE,
     DefaultAction |-> <<>>, ScrollPattern |-> Stable(NoPattern),
     AcceleratorKey |-> <<>>, fail |-> "none"]

\* Every combination of the properties the classifier predicates read.
ByFlags ==
    {[Plain(pair) EXCEPT !.BoundingRectangle = box, !.IsOffscreen = off,
                         !.IsControlElement = ctl, !.IsEnabled = en,
                         !.IsKeyboardFocusable = foc, !.DefaultAction = act] :
        pair \in TypePairs,
        box \in {FullRect, ZeroRect},
        off \in BOOLEAN, ctl \in BOOLEAN, en \in BOOLEAN, foc \in BOOLEAN,
        act \in {<<>>, W_click}}

\* Every pair of answers of the two fetches of the scroll pattern.
ByScroll ==
    {[Plain(pair) EXCEPT !.ScrollPattern = <<first, second>>,
                         !.BoundingRectangle = box, !.Name = name] :
        pair \in {<<"PaneControl", W_pane>>, <<"TextControl", W_text>>,
                  <<"ButtonControl", W_button>>},
        first \in ScrollReads, second \in ScrollReads,
        box \in {FullRect, ZeroRect},
        name \in {<<>>, <<"a">>}}

\* Every rectangle.
ByRect ==
    {[Plain(pair) EXCEPT !.BoundingRectangle = box] :
        pair \in {<<"ButtonControl", W_button>>, <<"TextControl", W_heading>>,
                  <<"GroupControl", W_group>>, <<"HyperlinkControl", W_link>>},
        box \in Rects}

\* Every name and accelerator key.
ByName ==
    {[Plain(pair) EXCEPT !.Name = name, !.AcceleratorKey = key, !.ClassName = cls] :
        pair \in {<<"ButtonControl", W_button>>, <<"TextControl", W_text>>,
                  <<"GroupControl", W_group>>, <<"PaneControl", W_pane>>},
        name \in Names, key \in {<<>>, <<"k">>},
        cls \in {"Chrome_WidgetWin_1", "Progman"}}

\* Every failing query.
ByFailure ==
    {[Plain(pair) EXCEPT !.fail = q, !.ScrollPattern = Stable(scroll), !.IsOffscreen = off] :
        pair \in TypePairs, q \in Queries,
        scroll \in {NoPattern, Pattern(FALSE, TRUE)}, off \in BOOLEAN}

\* Every combination of what line 215 reads of a child.
ByPruning ==
    {[Plain(pair) EXCEPT !.IsOffscreen = off, !.ClassName = cls, !.fail = q] :
        pair \in {<<"ButtonControl", W_button>>, <<"EditControl", W_edit>>,
                  <<"PaneControl", W_pane>>, <<"TextControl", W_text>>},
        off \in BOOLEAN, cls \in {"Chrome_WidgetWin_1", "Popup"},
        q \in {"none", "IsOffscreen", "ControlTypeName", "ClassName"}}

\* Group controls with a blank name, on and off the screen, under each
\* localized type dom_correction looks for.
ByGroup ==
    {[Plain(<<"GroupControl", type>>) EXCEPT !.Name = name, !.IsOffscreen = off,
                                           !.IsKeyboardFocusable = foc,
                                           !.ClassName = cls,
                                           !.BoundingRectangle = box] :
        type \in {W_group, W_link, W_item},
        name \in {<<>>, <<" ">>},
        off \in BOOLEAN, foc \in BOOLEAN,
        cls \in {"Chrome_WidgetWin_1", "Popup"},
        box \in {FullRect, [FullRect EXCEPT !.left = 1]}}

Controls ==
    ByFlags \cup ByScroll \cup ByRect \cup ByName \cup ByFailure \cup ByPruning \cup ByGroup

\* The controls that fill the larger trees: one of each classification and
\* of each pattern dom_correction looks for.
Common ==
    {Plain(<<"ButtonControl", W_button>>),
     Plain(<<"TextControl", W_text>>),
     Plain(<<"TextControl", W_heading>>),
     Plain(<<"HyperlinkControl", W_link>>),
     Plain(<<"ListItemControl", W_list_item>>),
     [Plain(<<"GroupControl", W_group>>) EXCEPT !.Name = <<>>],
     [Plain(<<"PaneControl", W_pane>>) EXCEPT !.ScrollPattern = Stable(Pattern(FALSE, TRUE))],
     [Plain(<<"ButtonControl", W_button>>) EXCEPT !.IsOffscreen = TRUE],
     [Plain(<<"PaneControl", W_pane>>) EXCEPT !.fail = "GetChildren"]}

\* The controls put above and below each control of Controls.
Partners ==
    {Plain(<<"HyperlinkControl", W_link>>),
     Plain(<<"TextControl", W_heading>>),
     Plain(<<"ListItemControl", W_list_item>>),
     [Plain(<<"GroupControl", W_group>>) EXCEPT !.Name = <<>>]}

\* parent vectors of the trees with n controls.
Shapes(n) ==
    {p \in [1..n -> 0..(n - 1)] : p[1] = 0 /\ \A i \in 2..n : p[i] >= 1 /\ p[i] < i}

App(controls, parent, is_browser, visible) ==
    [controls |-> controls, parent |-> parent, is_browser |-> is_browser,
     visible |-> visible]

(***************************************************************************)
(* State.                                                                  *)
(***************************************************************************)
VARIABLES
    desktop,    \* the applications under the root control, in GetChildren order
    pc,         \* where get_appwise_nodes is: "start", "collect", "returned", "raised"
    future,     \* per application: state "none" | "pending" | "finished", and the get_nodes call's lists
    completed,  \* the applications in the order their futures finished (as_completed)
    collected,  \* how many of them the merge loop has taken
    merged,     \* interactive_nodes, informative_nodes, scrollable_nodes of get_appwise_nodes
    handle,     \* a control handle and browser flag given to one classifier predicate
    outcome,    \* the predicate called on it and what the call did
    annotating, \* where annotated_screenshot is: "idle", "mapped", "returned"
    at,         \* per label: how far its draw_annotation task has come
    effects,    \* the calls made to the platform and to collaborators, in order (history)
    call,       \* the Tree operation in progress and its arguments
    padded_screenshot, \* the canvas of annotated_screenshot and what was drawn on it
    now,        \* time.time()
    cache,      \* PerformanceCache._cache: key -> (value, expiry), with history fields
    lock,       \* PerformanceCache._lock: the thread that holds it, or 0
    thread,     \* per thread: the cache operation it is in, its locals and its last result
    agent,      \* Agent.invoke: its position, its locals and its result
    retry,      \* RetryManager.retry: its position, its locals and what it did
    screenshot_manager \* ScreenshotManager: _last_screenshot and the call in progress

treeVars == <<desktop, pc, future, completed, collected, merged>>

predVars == <<handle, outcome>>

drawVars == <<annotating, at>>

imageVars == <<call, padded_screenshot>>

cacheVars == <<now, cache, lock, thread>>

agentVars == <<agent>>

perfVars == <<retry, screenshot_manager>>

laterVars == <<effects, imageVars, cacheVars, agentVars, perfVars>>

vars == <<treeVars, predVars, drawVars, laterVars>>

NoLists == [interactive_nodes |-> <<>>, informative_nodes |-> <<>>, scrollable_nodes |-> <<>>]

NotCalled == [fn |-> "none", raised |-> FALSE, val |-> FALSE]

\* No predicate is under test.
PredIdle ==
    /\ handle = [node |-> Plain(<<"PaneControl", W_pane>>), is_browser |-> FALSE]
    /\ outcome = NotCalled

\* No screenshot is being annotated.
DrawIdle ==
    /\ annotating = "idle"
    /\ at = <<>>

\* No Tree operation is in progress and nothing was drawn.
ImageIdle ==
    /\ call = [op |-> "none"]
    /\ padded_screenshot = [width |-> 0, height |-> 0, drawn |-> <<>>]

\* The cache is empty and no thread uses it.
CacheIdle ==
    /\ now = 0
    /\ cache = <<>>
    /\ lock = 0
    /\ thread = <<>>

\* Agent.invoke was not called.
AgentIdle == agent = [pc |-> "none"]

\* RetryManager.retry was not called.
RetryIdle == retry = [pc |-> "none"]

\* No ScreenshotManager was made.
ScreenshotIdle == screenshot_manager = [pc |-> "none"]

LaterIdle ==
    /\ effects = <<>>
    /\ ImageIdle
    /\ CacheIdle
    /\ AgentIdle
    /\ RetryIdle
    /\ ScreenshotIdle

\* No snapshot is being taken.
TreeIdle ==
    /\ desktop = <<>>
    /\ pc = "start"
    /\ future = <<>>
    /\ completed = <<>>
    /\ collected = 0
    /\ merged = NoLists

\* A worker runs get_nodes for application a to its end (line 32's submit).
\* The call's draws are the least or the greatest the generator gives.
GetNodes(a) ==
    /\ pc = "collect"
    /\ future[a].state = "pending"
    /\ \E draw \in {0, RandMax} :
          future' = [future EXCEPT ![a] =
                        [state |-> "finished", lists |-> get_nodes(desktop[a], [x |-> draw, y |-> draw])]]
    /\ completed' = Append(completed, a)
    /\ UNCHANGED <<desktop, pc, collected, merged, predVars, drawVars, laterVars>>

\* A desktop of one application: a tree of up to MaxNodes controls of Common,
\* a tree of one or two controls where one ranges over all of Controls, or a
\* blank-named group above a link above a heading.
OneApplication ==
    \/ \E n \in 1..MaxNodes : \E c \in [1..n -> Common] : \E p \in Shapes(n) :
          \E b \in BOOLEAN : desktop = <<App(c, p, b, TRUE)>>
    \/ \E c \in Controls : \E b \in BOOLEAN : desktop = <<App(<<c>>, <<0>>, b, TRUE)>>
    \/ \E c \in Controls : \E d \in Partners : \E b \in BOOLEAN :
          \/ desktop = <<App(<<c, d>>, <<0, 1>>, b, TRUE)>>
          \/ desktop = <<App(<<d, c>>, <<0, 1>>, b, TRUE)>>
    \/ \E c \in ByGroup : \E b \in BOOLEAN :
          desktop = <<App(<<c, Plain(<<"HyperlinkControl", W_link>>),
                            Plain(<<"TextControl", W_heading>>)>>, <<0, 1, 2>>, b, TRUE)>>

\* One get_nodes call on one application, as submitted by get_appwise_nodes.
Init ==
    /\ OneApplication
    /\ pc = "collect"
    /\ future = <<[state |-> "pending", lists |-> NewLists]>>
    /\ completed = <<>>
    /\ collected = 0
    /\ merged = NoLists
    /\ PredIdle
    /\ DrawIdle
    /\ LaterIdle

Next == \E a \in 1..Len(desktop) : GetNodes(a)

Spec == Init /\ [][Next]_vars

(***************************************************************************)
(* The classifier predicates on their own: one predicate is called on one  *)
(* control handle.                                                         *)
(***************************************************************************)
Called(fn, r) ==
    /\ outcome = NotCalled
    /\ outcome' = [fn |-> fn, raised |-> r.raised, val |-> r.val]
    /\ UNCHANGED <<handle, treeVars, drawVars, laterVars>>

Call_is_element_visible == Called("is_element_visible", is_element_visible(handle.node, 0))

Call_is_element_enabled == Called("is_element_enabled", is_element_enabled(handle.node))

Call_is_default_action == Called("is_default_action", is_default_action(handle.node))

Call_is_element_image == Called("is_element_image", is_element_image(handle.node))

Call_is_keyboard_focusable == Called("is_keyboard_focusable", is_keyboard_focusable(handle.node))

Call_is_element_text == Called("is_element_text", is_element_text(handle.node))

Call_is_element_scrollable == Called("is_element_scrollable", is_element_scrollable(handle.node))

Call_is_element_interactive ==
    Called("is_element_interactive", is_element_interactive(handle.node, handle.is_browser))

InitPred ==
    /\ \E c \in Controls : \E b \in BOOLEAN : handle = [node |-> c, is_browser |-> b]
    /\ outcome = NotCalled
    /\ TreeIdle
    /\ DrawIdle
    /\ LaterIdle

NextPred ==
    \/ Call_is_element_visible
    \/ Call_is_element_enabled
    \/ Call_is_default_action
    \/ Call_is_element_image
    \/ Call_is_keyboard_focusable
    \/ Call_is_element_text
    \/ Call_is_element_scrollable
    \/ Call_is_element_interactive

SpecPred == InitPred /\ [][NextPred]_vars

(***************************************************************************)
(* Tree.get_appwise_nodes: the applications of the desktop are traversed   *)
(* by the workers of a ThreadPoolExecutor and merged as they complete.     *)
(***************************************************************************)
\* windows_use/desktop/config.py is not part of the sources at hand: the
\* configured avoid-list of application names.
AVOIDED_APPS == {<<"z">>}

Window(name) == [Plain(<<"PaneControl", W_pane>>) EXCEPT !.Name = name]

\* The application trees of a desktop of several applications.
SmallTrees ==
    {[controls |-> <<Window(<<"b">>), Plain(<<"TextControl", W_text>>),
                     [Plain(<<"PaneControl", W_pane>>) EXCEPT !.fail = "GetChildren"]>>,
      parent |-> <<0, 1, 1>>, is_browser |-> FALSE],
     [controls |-> <<[Window(<<"c">>) EXCEPT !.ScrollPattern = Stable(Pattern(TRUE, FALSE))],
                     Plain(<<"HyperlinkControl", W_link>>),
                     Plain(<<"TextControl", W_heading>>)>>,
      parent |-> <<0, 1, 2>>, is_browser |-> TRUE],
     [controls |-> <<[Window(<<"d">>) EXCEPT !.fail = "ClassName"]>>,
      parent |-> <<0>>, is_browser |-> FALSE],
     [controls |-> <<[Window(<<"e">>) EXCEPT !.fail = "Name"]>>,
      parent |-> <<0>>, is_browser |-> FALSE],
     [controls |-> <<Window(<<"a">>), Plain(<<"ButtonControl", W_button>>),
                     [Plain(<<"ButtonControl", W_button>>) EXCEPT !.Name = <<>>]>>,
      parent |-> <<0, 1, 2>>, is_browser |-> FALSE],
     [controls |-> <<Window(<<"z">>), Plain(<<"ButtonControl", W_button>>)>>,
      parent |-> <<0, 1>>, is_browser |-> FALSE]}

\* Faulty variant: the avoid-list is not consulted.
is_visible_app_unfiltered(app) ==
    IF ~app.visible THEN Ret(FALSE)
    ELSE IF Fails(app.controls[1], "Name") THEN Exc
    ELSE Ret(TRUE)

\* Line 28's filter on one application: desktop.is_app_visible(app) and
\* app.Name not in AVOIDED_APPS.
is_visible_app(app) ==
    IF ~app.visible THEN Ret(FALSE)
    ELSE IF Fails(app.controls[1], "Name") THEN Exc
    ELSE Ret(app.controls[1].Name \notin AVOIDED_APPS)

\* Lines 27-32: the visible applications are submitted to the executor.
Submit ==
    /\ pc = "start"
    /\ IF \E a \in 1..Len(desktop) : is_visible_app(desktop[a]).raised
       THEN /\ pc' = "raised"
            /\ UNCHANGED future
       ELSE /\ pc' = "collect"
            /\ future' = [a \in 1..Len(desktop) |->
                            IF is_visible_app(desktop[a]).val
                            THEN [state |-> "pending", lists |-> NewLists]
                            ELSE future[a]]
    /\ UNCHANGED <<desktop, completed, collected, merged, predVars, drawVars, laterVars>>

\* The lists the get_nodes call of application a appends to: the locals of
\* that call (line 46), which its closures share and no other call sees.
own_lists_shared(a, f) == f[1].lists

own_lists(a, f) == f[a].lists

\* One call of tree_traversal without the calls it makes for the children:
\* todo holds the controls the loops of line 214 have still to look at, the
\* nearest loop first.  The control at its head is looked at (line 215) and,
\* unless skipped, classified (lines 179-212) and its children listed.
traversal_step(app, rnd, todo, st) ==
    LET n == Head(todo)
        window == app.controls[1]
        app_name == IF window.ClassName = "Progman" THEN W_Desktop ELSE strip(window.Name)
        skip == IF n = 1 THEN Ret(FALSE) ELSE skip_child(app.controls[n])
        classified == classify(app, app_name, rnd, n, [st EXCEPT !.visited = Append(@, n)])
    IN  IF skip.raised THEN [lists |-> Raise(st), todo |-> <<>>]
        ELSE IF skip.val THEN [lists |-> st, todo |-> Tail(todo)]
        ELSE IF classified.raised THEN [lists |-> classified, todo |-> <<>>]
        ELSE IF Fails(app.controls[n], "GetChildren")
             THEN [lists |-> Raise(classified), todo |-> <<>>]
        ELSE [lists |-> classified, todo |-> GetChildren(app, n) \o Tail(todo)]

\* A worker takes the submitted call of application a and runs lines 46-48.
\* The call's draws are the least or the greatest the generator gives.
Begin(a) ==
    /\ pc = "collect"
    /\ future[a].state = "pending"
    /\ \E draw \in {0, RandMax} :
          IF Fails(desktop[a].controls[1], "Name") \/ Fails(desktop[a].controls[1], "ClassName")
          THEN /\ future' = [future EXCEPT ![a] =
                    [state |-> "finished", lists |-> Raise(NewLists),
                     todo |-> <<>>, draw |-> 0]]
               /\ completed' = Append(completed, a)
          ELSE /\ future' = [future EXCEPT ![a] =
                    [state |-> "running", lists |-> NewLists, todo |-> <<1>>,
                     draw |-> draw]]
               /\ UNCHANGED completed
    /\ UNCHANGED <<desktop, pc, collected, merged, predVars, drawVars, laterVars>>

\* The worker of application a looks at the next control of its traversal;
\* the call ends when nothing is left to look at or an exception leaves it.
Step(a) ==
    /\ pc = "collect"
    /\ future[a].state = "running"
    /\ LET r == traversal_step(desktop[a], [x |-> future[a].draw, y |-> future[a].draw],
                               future[a].todo, own_lists(a, future))
       IN  /\ future' = [future EXCEPT ![a] =
                 [state |-> IF r.todo = <<>> THEN "finished" ELSE "running",
                  lists |-> r.lists, todo |-> r.todo, draw |-> future[a].draw]]
           /\ completed' = IF r.todo = <<>> THEN Append(completed, a) ELSE completed
    /\ UNCHANGED <<desktop, pc, collected, merged, predVars, drawVars, laterVars>>

\* Faulty variant: future.result() outside any try/except.
merge_result_uncaught(lists, into) ==
    IF lists.raised
    THEN [raised |-> TRUE, merged |-> into]
    ELSE [raised |-> FALSE,
          merged |-> [interactive_nodes |-> into.interactive_nodes \o lists.interactive_nodes,
                      informative_nodes |-> into.informative_nodes \o lists.informative_nodes,
                      scrollable_nodes |-> into.scrollable_nodes \o lists.scrollable_nodes]]

\* Lines 34-42: future.result() of a finished future, inside try/except.
\* An exception of the worker is re-raised by result() and caught here.
merge_result(lists, into) ==
    IF lists.raised
    THEN [raised |-> FALSE, merged |-> into]
    ELSE [raised |-> FALSE,
          merged |-> [interactive_nodes |-> into.interactive_nodes \o lists.interactive_nodes,
                      informative_nodes |-> into.informative_nodes \o lists.informative_nodes,
                      scrollable_nodes |-> into.scrollable_nodes \o lists.scrollable_nodes]]

\* One iteration of `for future in as_completed(future_to_node)`.
Collect ==
    /\ pc = "collect"
    /\ collected < Len(completed)
    /\ LET r == merge_result(future[completed[collected + 1]].lists, merged)
       IN  /\ merged' = r.merged
           /\ pc' = IF r.raised THEN "raised" ELSE pc
    /\ collected' = collected + 1
    /\ UNCHANGED <<desktop, future, completed, predVars, drawVars, laterVars>>

Submitted == {a \in 1..Len(desktop) : future[a].state # "none"}

\* Line 43, once every submitted future has been taken by the loop.
Return ==
    /\ pc = "collect"
    /\ collected = Cardinality(Submitted)
    /\ pc' = "returned"
    /\ UNCHANGED <<desktop, future, completed, collected, merged, predVars, drawVars, laterVars>>

InitApps ==
    /\ \E n \in 1..MaxApps : \E t \in [1..n -> SmallTrees] : \E v \in [1..n -> BOOLEAN] :
          desktop = [a \in 1..n |-> App(t[a].controls, t[a].parent, t[a].is_browser, v[a])]
    /\ pc = "start"
    /\ future = [a \in 1..Len(desktop) |-> [state |-> "none", lists |-> NewLists]]
    /\ completed = <<>>
    /\ collected = 0
    /\ merged = NoLists
    /\ PredIdle
    /\ DrawIdle
    /\ LaterIdle

NextApps ==
    \/ Submit
    \/ \E a \in 1..Len(desktop) : Begin(a)
    \/ \E a \in 1..Len(desktop) : Step(a)
    \/ Collect
    \/ Return

SpecApps == InitApps /\ [][NextApps]_vars

(***************************************************************************)
(* Tree.annotated_screenshot: executor.map runs one draw_annotation task   *)
(* per node on the workers of a ThreadPoolExecutor; every task draws on    *)
(* the one ImageDraw object `draw` of the padded screenshot.  A task makes *)
(* three draw calls: the bounding box, the label background, the label     *)
(* text.  No lock is taken anywhere in the module.                         *)
(***************************************************************************)
\* How far a draw_annotation task has come.
Queued == 0
InRectangle == 1
BoxDrawn == 2
InLabelRectangle == 3
LabelBackgroundDrawn == 4
InText == 5
Annotated == 6

\* The task is inside a call that writes to the shared image.
InDraw(t) == at[t] \in {InRectangle, InLabelRectangle, InText}

\* Line 275: executor.map(draw_annotation, range(len(nodes)), nodes).
Map ==
    /\ annotating = "idle"
    /\ \E n \in 1..MaxNodes : at' = [t \in 1..n |-> Queued]
    /\ annotating' = "mapped"
    /\ UNCHANGED <<treeVars, predVars, laterVars>>

\* A worker's task enters draw.rectangle (line 256 or 270) or draw.text (271).
EnterDraw(t) ==
    /\ annotating = "mapped"
    /\ at[t] \in {Queued, BoxDrawn, LabelBackgroundDrawn}
    /\ at' = [at EXCEPT ![t] = @ + 1]
    /\ UNCHANGED <<annotating, treeVars, predVars, laterVars>>

\* The draw call of the task returns.
LeaveDraw(t) ==
    /\ annotating = "mapped"
    /\ InDraw(t)
    /\ at' = [at EXCEPT ![t] = @ + 1]
    /\ UNCHANGED <<annotating, treeVars, predVars, laterVars>>

\* Line 276, after the executor's with-block has waited for every task.
ReturnScreenshot ==
    /\ annotating = "mapped"
    /\ \A t \in DOMAIN at : at[t] = Annotated
    /\ annotating' = "returned"
    /\ UNCHANGED <<at, treeVars, predVars, laterVars>>

InitDraw ==
    /\ DrawIdle
    /\ LaterIdle
    /\ TreeIdle
    /\ PredIdle

NextDraw ==
    \/ Map
    \/ \E t \in DOMAIN at : EnterDraw(t)
    \/ \E t \in DOMAIN at : LeaveDraw(t)
    \/ ReturnScreenshot

SpecDraw == InitDraw /\ [][NextDraw]_vars

\* C20: no two draw_annotation tasks are inside a draw call on the shared
\* image at the same time.
C20_DrawCallsExclusive ==
    \A t, u \in DOMAIN at : (InDraw(t) /\ InDraw(u)) => t = u

(***************************************************************************)
(* Properties of one get_nodes call.                                       *)
(***************************************************************************)
Finished(a) == future[a].state = "finished"

\* The call returned its three lists (it did not raise).
Returned(a) == Finished(a) /\ ~future[a].lists.raised

Entries(list) == {list[i] : i \in 1..Len(list)}

\* Some entry of the list carries the name or geometry of control n.
Carries(list, n) == \E e \in Entries(list) : n \in e.controls

\* The classification of control n itself appended an entry to the list.
Classified(list, n) ==
    \E e \in Entries(list) : e.controls = {n} /\ e.by = "tree_traversal"

ListNames == {"interactive_nodes", "informative_nodes", "scrollable_nodes"}

\* Line 215's condition, on what the platform reports of the child.
OffscreenNonEditNonPopup(c) ==
    c.IsOffscreen /\ c.ControlTypeName # "EditControl" /\ c.ClassName # "Popup"

\* Control n is the application's window or a descendant of it none of whose
\* ancestors-or-self below the window meets line 215's condition.
RECURSIVE Reachable(_, _)
Reachable(app, n) ==
    n = 1 \/ (~OffscreenNonEditNonPopup(app.controls[n]) /\ Reachable(app, app.parent[n]))

\* C2: in one get_nodes call no control of the tree has entries in more than
\* one of the three lists, entries dom_correction made from a child or
\* descendant included.
C2_OneListPerControl ==
    \A a \in DOMAIN future : Returned(a) =>
        \A n \in 1..Len(desktop[a].controls) :
            Cardinality({k \in ListNames : Carries(future[a].lists[k], n)}) <= 1

\* C3: a control whose bounding box has width 0 and height 0 is in none of
\* the three lists, whatever its other properties.
C3_EmptyBoxNeverEmitted ==
    \A a \in DOMAIN future : Returned(a) =>
        \A n \in 1..Len(desktop[a].controls) :
            (width(desktop[a].controls[n].BoundingRectangle) = 0
             /\ height(desktop[a].controls[n].BoundingRectangle) = 0)
            => \A k \in ListNames : ~Classified(future[a].lists[k], n)

\* C4: the center of every entry of the interactive list, appended by
\* tree_traversal or by dom_correction, lies inside the entry's bounding box.
C4_CenterInsideBox ==
    \A a \in DOMAIN future : Finished(a) =>
        \A e \in Entries(future[a].lists.interactive_nodes) :
            /\ e.bounding_box.left <= e.center.x /\ e.center.x <= e.bounding_box.right
            /\ e.bounding_box.top <= e.center.y /\ e.center.y <= e.bounding_box.bottom

\* A returned call holds an entry appended by tree_traversal and a link
\* entry that dom_correction made from a heading child.
C4_Witness ==
    \E a \in DOMAIN future : Returned(a) /\
        /\ \E e \in Entries(future[a].lists.interactive_nodes) :
              e.by = "tree_traversal" /\ ~isempty(e.bounding_box)
        /\ \E e \in Entries(future[a].lists.interactive_nodes) :
              e.by = "dom_correction" /\ e.control_type = W_link

\* C5: every entry of the scrollable list has horizontal_scrollable or
\* vertical_scrollable set.
C5_ScrollFlagSet ==
    \A a \in DOMAIN future : Returned(a) =>
        \A e \in Entries(future[a].lists.scrollable_nodes) :
            e.horizontal_scrollable \/ e.vertical_scrollable

\* C6: a query failing on one control does not cost any other control its
\* entry: a control that answers every query, is reached by the traversal and
\* classifies is in the result of the call.
C6_QueryFailureContained ==
    \A a \in DOMAIN future : Finished(a) =>
        \A n \in 1..Len(desktop[a].controls) :
            LET app == desktop[a]
                c == app.controls[n]
            IN  (/\ c.fail = "none"
                 /\ c.ScrollPattern[1] = c.ScrollPattern[2]
                 /\ Reachable(app, n)
                 /\ \/ is_element_text(c).val
                    \/ is_element_scrollable(c).val
                    \/ (is_element_interactive(c, app.is_browser).val /\ ~app.is_browser))
                => /\ Returned(a)
                   /\ \E k \in ListNames : Classified(future[a].lists[k], n)

\* C8: a child of a visited control is visited exactly when it does not meet
\* line 215's condition, whatever became of its parent's classification.
C8_ChildVisitedUnlessPruned ==
    \A a \in DOMAIN future : Finished(a) =>
        LET app == desktop[a]
            visited == Entries(future[a].lists.visited)
        IN  \A n \in visited : \A k \in 2..Len(app.controls) :
                app.parent[k] = n =>
                    ((k \in visited) <=> ~OffscreenNonEditNonPopup(app.controls[k]))

\* C9: classification is first match in the order interactive, text,
\* scrollable; a visited control that satisfies only the scrollable predicate
\* is emitted as a scroll node.
C9_FirstMatch ==
    \A a \in DOMAIN future : Finished(a) =>
        LET app == desktop[a]
            lists == future[a].lists
        IN  \A n \in Entries(lists.visited) :
                LET c == app.controls[n]
                    interactive == is_element_interactive(c, app.is_browser).val
                    text == is_element_text(c).val
                    scrollable == is_element_scrollable(c).val
                IN  /\ interactive => /\ ~Classified(lists.informative_nodes, n)
                                      /\ ~Classified(lists.scrollable_nodes, n)
                    /\ (text /\ ~interactive) => ~Classified(lists.scrollable_nodes, n)
                    /\ (scrollable /\ ~text /\ ~interactive) =>
                           Classified(lists.scrollable_nodes, n)

(***************************************************************************)
(* Properties of dom_correction.                                           *)
(***************************************************************************)
\* The calls of dom_correction made for control n in a call's state.
CorrectionsOf(lists, n) == {c \in Entries(lists.corrections) : c.node = n}

\* Control n answers every query, at each time it is asked.
Answers(c) ==
    c.fail = "none" /\ c.ScrollPattern[1].supported = c.ScrollPattern[2].supported

\* The interactive list holds an entry for the link: its own, or the one
\* dom_correction put in its place from its heading child.
LinkPresent(app, lists, link) ==
    \/ Classified(lists.interactive_nodes, link)
    \/ \E e \in Entries(lists.interactive_nodes) :
          /\ e.by = "dom_correction"
          /\ e.control_type = W_link
          /\ e.controls = {GetFirstChildControl(app, link)}

\* Control n is an interactive item of a browser whose first child is a link.
ItemOverLink(app, n) ==
    LET child == GetFirstChildControl(app, n)
    IN  /\ app.is_browser
        /\ is_element_interactive(app.controls[n], app.is_browser).val
        /\ app.controls[n].LocalizedControlType \in {W_list_item, W_item}
        /\ child # 0
        /\ app.controls[child].LocalizedControlType = W_link

\* C11: in a browser, for an interactive item whose first child is a link,
\* dom_correction removes the item's entry and adds none, and the returned
\* interactive list holds the link and not the item.
C11_ItemCollapsedToLink ==
    \A a \in DOMAIN future : Returned(a) =>
        LET app == desktop[a]
            lists == future[a].lists
        IN  \A n \in Entries(lists.visited) : ItemOverLink(app, n) =>
                /\ \A c \in CorrectionsOf(lists, n) :
                       c.after.interactive_nodes = pop(c.before.interactive_nodes)
                /\ ~Carries(lists.interactive_nodes, n)
                /\ LinkPresent(app, lists, GetFirstChildControl(app, n))

\* The positions of the interactive list whose entry carries control n.
EntriesCarrying(lists, n) ==
    {i \in DOMAIN lists.interactive_nodes : n \in lists.interactive_nodes[i].controls}

\* Control n is passed to tree_traversal if the call gets that far: it is the
\* application's window or a child of a visited control.
Offered(app, lists, n) == n = 1 \/ app.parent[n] \in Entries(lists.visited)

\* Control n is an enabled, keyboard-focusable group with a blank name above
\* a chain of first children that ends in a named text control.
SearchBoxGroup(app, n) ==
    LET node == app.controls[n]
        deepest == deepest_first_child(app, n).val
    IN  /\ node.ControlTypeName = "GroupControl"
        /\ strip(node.Name) = <<>>
        /\ node.IsEnabled /\ node.IsControlElement /\ node.IsKeyboardFocusable
        /\ ~isempty(node.BoundingRectangle)
        /\ deepest # n
        /\ app.controls[deepest].ControlTypeName = "TextControl"
        /\ strip(app.controls[deepest].Name) # <<>>
        /\ \A k \in DOMAIN app.controls : Answers(app.controls[k])

\* C12: in a browser, an off-screen keyboard-focusable group with a blank name
\* whose chain of first children ends in a named text control yields exactly
\* one interactive entry, of type Edit, named after the text control, with
\* the group's bounding box, and no entry of the group's own.
C12_OffscreenGroupSynthesized ==
    \A a \in DOMAIN future : Returned(a) /\ desktop[a].is_browser =>
        LET app == desktop[a]
            lists == future[a].lists
        IN  \A n \in DOMAIN app.controls :
                (/\ Offered(app, lists, n)
                 /\ SearchBoxGroup(app, n)
                 /\ app.controls[n].IsOffscreen)
                => /\ Cardinality(EntriesCarrying(lists, n)) = 1
                   /\ \A i \in EntriesCarrying(lists, n) :
                        LET e == lists.interactive_nodes[i]
                        IN  /\ e.control_type = W_Edit
                            /\ e.name = strip(app.controls[deepest_first_child(app, n).val].Name)
                            /\ e.bounding_box = BoundingBox(app.controls[n].BoundingRectangle)
                   /\ ~Classified(lists.interactive_nodes, n)

\* Control n is an interactive hyperlink of a browser whose first child is a
\* heading.
LinkOverHeading(app, n) ==
    LET child == GetFirstChildControl(app, n)
    IN  /\ app.is_browser
        /\ is_element_interactive(app.controls[n], app.is_browser).val
        /\ app.controls[n].ControlTypeName = "HyperlinkControl"
        /\ app.controls[n].LocalizedControlType = W_link
        /\ child # 0
        /\ app.controls[child].LocalizedControlType = W_heading

\* The positions of the interactive list whose entry dom_correction built
\* from control k alone.
PromotedFrom(lists, k) ==
    {i \in DOMAIN lists.interactive_nodes :
        /\ lists.interactive_nodes[i].by = "dom_correction"
        /\ lists.interactive_nodes[i].controls = {k}}

ItemLinkRule(app, n) ==
    OrElse(element_has_child_element(app, n, W_list_item, W_link),
           element_has_child_element(app, n, W_item, W_link))

UnnamedGroupRule(app, n) == group_has_no_name(app.controls[n])

LinkHeadingRule(app, n) == element_has_child_element(app, n, W_link, W_heading)

\* The number of the three conditions that hold of control n.
RulesMatching(app, n) ==
    Cardinality({r \in {"item", "group", "heading"} :
        \/ r = "item" /\ ItemLinkRule(app, n).val
        \/ r = "group" /\ UnnamedGroupRule(app, n).val
        \/ r = "heading" /\ LinkHeadingRule(app, n).val})

\* What one call of dom_correction appended after its removal, if anything.
Appended(c) ==
    IF Len(c.after.interactive_nodes) = Len(c.before.interactive_nodes)
    THEN {c.after.interactive_nodes[Len(c.after.interactive_nodes)]}
    ELSE {}

\* C14: dom_correction tries the item/link collapse, then the unnamed-group
\* expansion, then the link/heading promotion; the first condition that holds
\* decides alone what happens, and a rule that fires removes exactly the one
\* entry at the end of the interactive list.
C14_FirstRuleOnly ==
    \A a \in DOMAIN future : Finished(a) =>
        LET app == desktop[a]
        IN  \A c \in Entries(future[a].lists.corrections) :
                LET before == c.before.interactive_nodes
                    after == c.after.interactive_nodes
                    item == ItemLinkRule(app, c.node)
                    group == UnnamedGroupRule(app, c.node)
                    heading == LinkHeadingRule(app, c.node)
                IN  /\ Len(after) \in {Len(before) - 1, Len(before)}
                    /\ SubSeq(after, 1, Len(before) - 1) = pop(before)
                    /\ ~item.raised /\ item.val => after = pop(before)
                    /\ ~item.raised /\ ~item.val /\ group.val =>
                          /\ after # before
                          /\ \A e \in Appended(c) :
                                e.control_type = W_Edit /\ c.node \in e.controls
                    /\ ~item.raised /\ ~item.val /\ ~group.val
                          /\ ~heading.raised /\ heading.val =>
                          /\ after # before
                          /\ \A e \in Appended(c) :
                                /\ e.control_type = W_link
                                /\ e.controls = {GetFirstChildControl(app, c.node)}
                    /\ ~item.raised /\ ~item.val /\ ~group.val
                          /\ ~heading.raised /\ ~heading.val => after = before

\* dom_correction was called for a control that meets two of the three
\* conditions and appended the entry of the first of them.
C14_Witness ==
    \E a \in DOMAIN future :
        /\ Returned(a)
        /\ \E c \in Entries(future[a].lists.corrections) :
              /\ RulesMatching(desktop[a], c.node) = 2
              /\ UnnamedGroupRule(desktop[a], c.node).val
              /\ LinkHeadingRule(desktop[a], c.node).val
              /\ Appended(c) # {}

\* The positions of the interactive list whose entry tree_traversal appended
\* for control n.
OwnEntries(lists, n) ==
    {i \in DOMAIN lists.interactive_nodes :
        /\ lists.interactive_nodes[i].by = "tree_traversal"
        /\ lists.interactive_nodes[i].controls = {n}}

C16_TitleCasedType ==
    \A a \in DOMAIN future : Finished(a) =>
        \A e \in Entries(future[a].lists.interactive_nodes) :
            /\ e.control_type = title(e.control_type)
            /\ e.by = "tree_traversal" =>
                  \A n \in e.controls :
                      e.control_type = title(desktop[a].controls[n].LocalizedControlType)

\* C17: every entry of the three lists has a non-empty name and every
\* interactive entry a non-empty shortcut; a control whose name is blank is
\* emitted with a name that is not blank, and an interactive control without
\* accelerator key with the empty marker as shortcut.
C17_NameAndShortcutNeverEmpty ==
    \A a \in DOMAIN future : Finished(a) =>
        LET app == desktop[a]
            lists == future[a].lists
        IN  /\ \A k \in ListNames : \A e \in Entries(lists[k]) :
                  /\ e.name # <<>>
                  /\ strip(e.name) # <<>>
            /\ \A e \in Entries(lists.interactive_nodes) :
                  /\ e.shortcut # <<>>
                  /\ e.by = "tree_traversal" =>
                        \A n \in e.controls :
                            /\ strip(app.controls[n].Name) = <<>> => e.name = EmptyMarker
                            /\ app.controls[n].AcceleratorKey = <<>> =>
                                  e.shortcut = EmptyMarker
            /\ \A e \in Entries(lists.informative_nodes) :
                  \A n \in e.controls :
                      strip(app.controls[n].Name) = <<>> => e.name = EmptyMarker

\* A call returned an interactive or text entry of a control whose name is
\* blank.
C17_Witness ==
    \E a \in DOMAIN future :
        /\ Returned(a)
        /\ \E k \in {"interactive_nodes", "informative_nodes"} :
              \E e \in Entries(future[a].lists[k]) :
                  /\ e.by = "tree_traversal"
                  /\ e.name = EmptyMarker
                  /\ e.controls # {}
                  /\ \A n \in e.controls : strip(desktop[a].controls[n].Name) = <<>>

(***************************************************************************)
(* Properties of the classifier predicates.                                *)
(***************************************************************************)
\* The queries a predicate reads on every call.
AlwaysReads(fn) ==
    CASE fn = "is_element_visible" -> {"IsControlElement", "BoundingRectangle"}
      [] fn = "is_element_enabled" -> {"IsEnabled"}
      [] fn = "is_default_action" -> {"GetLegacyIAccessiblePattern"}
      [] fn = "is_keyboard_focusable" -> {"ControlTypeName"}
      [] fn = "is_element_text" -> {"ControlTypeName"}
      [] fn = "is_element_scrollable" -> {"GetScrollPattern"}
      [] fn = "is_element_interactive" -> {"ControlTypeName"}
      [] OTHER -> {}

\* C7: a classifier predicate called on a control one of whose queries it
\* reads fails returns false and does not raise.
C7_PredicateFalseOnFailure ==
    handle.node.fail \in AlwaysReads(outcome.fn) => (~outcome.raised /\ ~outcome.val)

\* C10: is_element_interactive is true exactly for an allow-listed type that
\* is visible, enabled, not image-like and keyboard-focusable, or a group that
\* is visible, enabled and has a default action or (in a browser) is
\* keyboard-focusable.
C10_InteractiveExactly ==
    LET c == handle.node
        visible == is_element_visible(c, 0)
        enabled == is_element_enabled(c)
        image == is_element_image(c)
        focusable == is_keyboard_focusable(c)
        action == is_default_action(c)
    IN  (/\ outcome.fn = "is_element_interactive"
         /\ c.fail # "ControlTypeName"
         /\ ~visible.raised /\ ~image.raised /\ ~action.raised)
        => /\ ~outcome.raised
           /\ outcome.val <=>
                \/ /\ c.ControlTypeName \in INTERACTIVE_CONTROL_TYPE_NAMES
                   /\ visible.val /\ enabled.val /\ ~image.val /\ focusable.val
                \/ /\ c.ControlTypeName = "GroupControl" /\ handle.is_browser
                   /\ visible.val /\ enabled.val /\ (action.val \/ focusable.val)
                \/ /\ c.ControlTypeName = "GroupControl" /\ ~handle.is_browser
                   /\ visible.val /\ enabled.val /\ action.val

\* The browser relaxation decided a call: a focusable group without a
\* default action was found interactive.
C10_Witness ==
    /\ outcome.fn = "is_element_interactive" /\ outcome.val
    /\ handle.node.ControlTypeName = "GroupControl" /\ handle.is_browser
    /\ ~is_default_action(handle.node).val
    /\ handle.node.fail = "none"

(***************************************************************************)
(* Properties of get_appwise_nodes.                                        *)
(***************************************************************************)
\* The lists named k of the calls that returned, in completion order.
RECURSIVE ReturnedLists(_, _)
ReturnedLists(k, order) ==
    IF order = <<>> THEN <<>>
    ELSE (IF future[Head(order)].lists.raised THEN <<>> ELSE future[Head(order)].lists[k])
         \o ReturnedLists(k, Tail(order))

ReturnedApps == {a \in Submitted : Returned(a)}

\* The orders in which the applications of S can follow one another.
Orders(S) ==
    {o \in [1..Cardinality(S) -> S] :
        \A i, j \in 1..Cardinality(S) : o[i] = o[j] => i = j}

C19_MergeIsConcatenation ==
    /\ \A a \in DOMAIN future : Finished(a) =>
          future[a].lists =
              get_nodes(desktop[a], [x |-> future[a].draw, y |-> future[a].draw])
    /\ pc = "returned" =>
          \E o \in Orders(ReturnedApps) :
              \A k \in ListNames : merged[k] = ReturnedLists(k, o)

\* get_appwise_nodes returned the entries of two applications whose
\* traversals finished in the reverse of the order they were submitted in.
C19_Witness ==
    /\ pc = "returned"
    /\ completed = <<2, 1>>
    /\ Returned(1) /\ Returned(2)
    /\ Len(future[1].lists.interactive_nodes) >= 2
    /\ future[2].lists.interactive_nodes # <<>>
    /\ Len(merged.interactive_nodes) >= 3

(***************************************************************************)
(* Tree.get_state, Tree.get_annotated_image_data and                       *)
(* Tree.annotated_screenshot: the order of their effects and what is drawn *)
(* on the padded screenshot.  Each draw_annotation task is taken as one    *)
(* step here; SpecDraw has the steps inside a task.                        *)
(***************************************************************************)
\* How many colors random.randint(0, 0xFFFFFF) chooses from, less one.
MaxColor == 1

\* Line 228.
padding == 20

\* Line 235.
font_size == 12

HexDigits == <<"0","1","2","3","4","5","6","7","8","9","a","b","c","d","e","f">>

\* format(n, "0{w}x"): n in hexadecimal, zero-padded to w digits.
RECURSIVE hex(_, _)
hex(n, w) ==
    IF w <= 0 /\ n = 0 THEN <<>>
    ELSE Append(hex(n \div 16, w - 1), HexDigits[(n % 16) + 1])

\* Lines 241-242, for the number r that random.randint returned.
get_random_color(r) == <<"#">> \o hex(r, 6)

\* str(n) of an integer n >= 0.
RECURSIVE str(_)
str(n) ==
    IF n < 10 THEN <<HexDigits[n + 1]>>
    ELSE Append(str(n \div 10), HexDigits[(n % 10) + 1])

\* int(x * scale) for scale = num/den: truncation toward zero.
int_scaled(x, scale) ==
    IF x >= 0 THEN (x * scale.num) \div scale.den
    ELSE -(((-x) * scale.num) \div scale.den)

\* Lines 249-254.
adjusted_box(box, scale) ==
    <<int_scaled(box.left, scale) + padding,
      int_scaled(box.top, scale) + padding,
      int_scaled(box.right, scale) + padding,
      int_scaled(box.bottom, scale) + padding>>

\* One call of a draw method on the canvas; `label` tells which task made it
\* (history).
Drawn(method, xy, outline, fill, text, label) ==
    [method |-> method, xy |-> xy, outline |-> outline, fill |-> fill,
     text |-> text, label |-> label]

\* A color argument that was not given.
NoColor == <<>>

White == <<"2", "5", "5">>

\* Lines 244-271: what draw_annotation(label, node) draws, for the number r
\* of random.randint and the width label_width that draw.textlength gave.
draw_annotation(label, node, scale, r, label_width) ==
    LET box == node.bounding_box
        color == get_random_color(r)
        adjusted == adjusted_box(box, scale)
        label_height == font_size
        left == adjusted[1]
        top == adjusted[2]
        right == adjusted[3]
        bottom == adjusted[4]
        label_x1 == right - label_width
        label_y1 == top - label_height - 4
        label_x2 == label_x1 + label_width
        label_y2 == label_y1 + label_height + 4
    IN  <<Drawn("rectangle", adjusted, color, NoColor, <<>>, label),
          Drawn("rectangle", <<label_x1, label_y1, label_x2, label_y2>>,
                NoColor, color, <<>>, label),
          Drawn("text", <<label_x1 + 2, label_y1 + 2>>, NoColor, White,
                str(label), label)>>

\* The scale of annotated_screenshot by default (line 224) and as
\* get_annotated_image_data passes it (line 281).
DefaultScale == [num |-> 7, den |-> 10]

FullScale == [num |-> 1, den |-> 1]

\* The screen, in pixels.
Screen == [width |-> 100, height |-> 60]

\* desktop.get_screenshot(scale): an image of the screen at that scale.
get_screenshot(scale) ==
    [width |-> int_scaled(Screen.width, scale),
     height |-> int_scaled(Screen.height, scale)]

\* Bounding boxes of interactive nodes: inside the screen, reaching its
\* right and lower edge, and of a window that lies partly beyond an edge.
NodeBoxes ==
    {[left |-> 0, top |-> 0, right |-> 10, bottom |-> 10],
     [left |-> 50, top |-> 20, right |-> 100, bottom |-> 60],
     [left |-> 60, top |-> 40, right |-> 140, bottom |-> 100],
     [left |-> -40, top |-> -30, right |-> 20, bottom |-> 10]}

\* The interactive nodes given to annotated_screenshot.
NodeLists ==
    UNION {[1..n -> {[bounding_box |-> BoundingBox(b)] : b \in NodeBoxes}] : n \in 0..MaxNodes}

\* What draw.textlength returns for a label, depending on the font.
LabelWidths == {6, 7}

Effect(op, what) == [op |-> op, what |-> what]

\* Lines 225-234 and 275: the screenshot is taken, the delay elapses, the
\* padded canvas is made and the tasks are handed to the executor.
StartAnnotating(op, nodes, scale, before) ==
    LET screenshot == get_screenshot(scale)
    IN  /\ effects' = effects \o before \o
                      <<Effect(op, "get_screenshot"), Effect(op, "sleep")>>
        /\ padded_screenshot' =
              [width |-> screenshot.width + (2 * padding),
               height |-> screenshot.height + (2 * padding),
               drawn |-> <<>>]
        /\ call' = [op |-> op, nodes |-> nodes, scale |-> scale, annotated |-> {}]

\* Lines 19-24.
GetState ==
    /\ call.op = "none"
    /\ effects = <<>>
    /\ effects' = <<Effect("get_state", "sleep"),
                    Effect("get_state", "GetRootControl"),
                    Effect("get_state", "get_appwise_nodes")>>
    /\ UNCHANGED <<imageVars, treeVars, predVars, drawVars, cacheVars, agentVars, perfVars>>

\* Lines 278-281: the root control is read, the nodes are collected and
\* annotated_screenshot is entered with them.
GetAnnotatedImageData ==
    /\ call.op = "none"
    /\ \E nodes \in NodeLists :
          StartAnnotating("get_annotated_image_data", nodes, FullScale,
                          <<Effect("get_annotated_image_data", "GetRootControl"),
                            Effect("get_annotated_image_data", "get_appwise_nodes")>>)
    /\ UNCHANGED <<treeVars, predVars, drawVars, cacheVars, agentVars, perfVars>>

\* Line 224: annotated_screenshot called with the default scale.
AnnotatedScreenshot ==
    /\ call.op = "none"
    /\ \E nodes \in NodeLists :
          StartAnnotating("annotated_screenshot", nodes, DefaultScale, <<>>)
    /\ UNCHANGED <<treeVars, predVars, drawVars, cacheVars, agentVars, perfVars>>

Annotating == call.op \in {"get_annotated_image_data", "annotated_screenshot"}

\* A worker runs draw_annotation(label, nodes[label]) (line 275).
DrawAnnotation(label) ==
    /\ Annotating
    /\ label < Len(call.nodes)
    /\ label \notin call.annotated
    /\ \E r \in 0..MaxColor : \E label_width \in LabelWidths :
          padded_screenshot' =
              [padded_screenshot EXCEPT !.drawn =
                  @ \o draw_annotation(label, call.nodes[label + 1], call.scale,
                                       r, label_width)]
    /\ call' = [call EXCEPT !.annotated = @ \cup {label}]
    /\ UNCHANGED <<effects, treeVars, predVars, drawVars, cacheVars, agentVars, perfVars>>

\* Line 276 (and 282), after the executor has waited for every task.
ReturnAnnotated ==
    /\ Annotating
    /\ call.annotated = {i - 1 : i \in 1..Len(call.nodes)}
    /\ call' = [call EXCEPT !.op = "returned"]
    /\ UNCHANGED <<effects, padded_screenshot, treeVars, predVars, drawVars,
                   cacheVars, agentVars, perfVars>>

InitImage ==
    /\ TreeIdle
    /\ PredIdle
    /\ DrawIdle
    /\ LaterIdle

NextImage ==
    \/ GetState
    \/ GetAnnotatedImageData
    \/ AnnotatedScreenshot
    \/ \E label \in 0..(MaxNodes - 1) : DrawAnnotation(label)
    \/ ReturnAnnotated

SpecImage == InitImage /\ [][NextImage]_vars

\* The rectangles drawn around nodes, and the label backgrounds and texts.
Boxes == {i \in 1..Len(padded_screenshot.drawn) :
             /\ padded_screenshot.drawn[i].method = "rectangle"
             /\ padded_screenshot.drawn[i].outline # NoColor}

Backgrounds == {i \in 1..Len(padded_screenshot.drawn) :
                   /\ padded_screenshot.drawn[i].method = "rectangle"
                   /\ padded_screenshot.drawn[i].fill # NoColor}

Labels == {i \in 1..Len(padded_screenshot.drawn) :
              padded_screenshot.drawn[i].method = "text"}

AnnotationReturned == call.op = "returned"

\* C21: when annotated_screenshot has returned for N nodes, N rectangles and
\* N labels are drawn, the rectangles' colors are pairwise distinct, every
\* label's background has the color of the rectangle of the same node, and
\* the label of the node at position i reads str(i).
C21_OneColoredLabelPerNode ==
    AnnotationReturned =>
        LET d == padded_screenshot.drawn
            N == Len(call.nodes)
        IN  /\ Cardinality(Boxes) = N
            /\ Cardinality(Labels) = N
            /\ \A i, j \in Boxes : d[i].outline = d[j].outline => i = j
            /\ \A b \in Backgrounds : \E i \in Boxes :
                  d[i].label = d[b].label /\ d[i].outline = d[b].fill
            /\ \A p \in 0..(N - 1) : \E l \in Labels : \E i \in Boxes :
                  /\ d[l].text = str(p)
                  /\ d[i].label = d[l].label
                  /\ d[i].xy = adjusted_box(call.nodes[p + 1].bounding_box, call.scale)

\* The coordinate v clipped to 0..limit.
clipped(v, limit) == IF v < 0 THEN 0 ELSE IF v > limit THEN limit ELSE v

\* C22: every rectangle drawn around a node is the node's bounding box
\* scaled, shifted by the padding and clipped to the canvas: its four
\* coordinates lie within the canvas.
C22_BoxWithinCanvas ==
    \A i \in Boxes :
        LET xy == padded_screenshot.drawn[i].xy
            node == call.nodes[padded_screenshot.drawn[i].label + 1]
            adjusted == adjusted_box(node.bounding_box, call.scale)
        IN  /\ xy = <<clipped(adjusted[1], padded_screenshot.width),
                      clipped(adjusted[2], padded_screenshot.height),
                      clipped(adjusted[3], padded_screenshot.width),
                      clipped(adjusted[4], padded_screenshot.height)>>
            /\ xy[1] \in 0..padded_screenshot.width
            /\ xy[3] \in 0..padded_screenshot.width
            /\ xy[2] \in 0..padded_screenshot.height
            /\ xy[4] \in 0..padded_screenshot.height

\* The positions in the history of the effects `what` of the operation op.
EffectsOf(op, what) ==
    {i \in 1..Len(effects) : effects[i] = Effect(op, what)}

\* C23: in get_state and in get_annotated_image_data the settle delay
\* elapses before the root control is read.
C23_DelayBeforeRootRead ==
    \A op \in {"get_state", "get_annotated_image_data"} :
        \A i \in EffectsOf(op, "GetRootControl") :
            \E j \in EffectsOf(op, "sleep") : j < i

\* C24: in the annotated-image path no screenshot is captured before the
\* settle delay has elapsed.
C24_DelayBeforeCapture ==
    \A op \in {"get_annotated_image_data", "annotated_screenshot"} :
        \A i \in EffectsOf(op, "get_screenshot") :
            \E j \in EffectsOf(op, "sleep") : j < i

(***************************************************************************)
(* windows_use/exceptions.py.  A Python object is its class and its        *)
(* instance attributes; a dict is the sequence of its items in insertion   *)
(* order.                                                                  *)
(***************************************************************************)
EmptyDict == <<>>

\* d[key] = value on a dict.
setitem(d, key, value) ==
    IF \E i \in 1..Len(d) : d[i][1] = key
    THEN [i \in 1..Len(d) |-> IF d[i][1] = key THEN <<key, value>> ELSE d[i]]
    ELSE Append(d, <<key, value>>)

\* An optional argument that was not passed (None).
NotPassed == [passed |-> FALSE]

Passed(v) == [passed |-> TRUE, val |-> v]

\* Lines 9-12: WindowsUseError.__init__ sets message and details.
WindowsUseError(class, message, details) ==
    [class |-> class,
     attrs |-> [message |-> message,
                details |-> IF details = EmptyDict THEN EmptyDict ELSE details]]

\* Lines 148-163: ValidationError.__init__ puts field, value and expected
\* into details and hands message and details to WindowsUseError.__init__.
ValidationError(message, field, value, expected) ==
    LET d0 == EmptyDict
        d1 == IF field.passed /\ field.val # "" THEN setitem(d0, "field", field.val) ELSE d0
        d2 == IF value.passed THEN setitem(d1, "value", value.val) ELSE d1
        d3 == IF expected.passed /\ expected.val # ""
              THEN setitem(d2, "expected", expected.val) ELSE d2
    IN  WindowsUseError("ValidationError", message, d3)

\* hasattr(obj, name)
hasattr(obj, name) == name \in DOMAIN obj.attrs

(***************************************************************************)
(* windows_use/agent/service.py: Agent.invoke.  The agent's collaborators  *)
(* (desktop, registry, llm, telemetry) appear through the calls made to    *)
(* them, recorded in `effects`; what the LLM and the tools answer is an    *)
(* input.                                                                  *)
(***************************************************************************)
MaxQuery == 2

MaxSteps == 3

MaxFailures == 2

\* The queries given to invoke.
QueryChars == {" ", "\n", "q"}

QueryStrings == UNION {[1..n -> QueryChars] : n \in 0..MaxQuery}

\* Faulty variant: the query is compared without being stripped.
is_empty_unstripped(query) == query = <<>>

\* Line 60.
is_blank(query) == strip(query) = <<>>

AgentResult(is_done, content, error) ==
    [is_done |-> is_done, content |-> content, error |-> error]

\* An exception of a built-in class.
BuiltinError(class, name) == [class |-> class, attrs |-> [name |-> name]]

\* The names of the actions the LLM's response can carry; NoAction: the
\* response carries none (agent_data.action is None, line 148).
Done == <<"D", "o", "n", "e">>

DoneTool == Done \o <<" ", "T", "o", "o", "l">>

DragTool == <<"D", "r", "a", "g", " ", "T", "o", "o", "l">>

NoAction == <<>>

ActionNames == {DoneTool, DragTool, NoAction}

\* What a tool answers: ToolResult.content (action_response is the latest).
Contents == {"c1", "c2"}

\* Faulty variant: only the first character is compared.
startswith_first(s, prefix) == Len(s) >= 1 /\ s[1] = prefix[1]

\* str.startswith
startswith(s, prefix) ==
    Len(s) >= Len(prefix) /\ SubSeq(s, 1, Len(prefix)) = prefix

\* A message of the list handed to the LLM: its class, and the number of
\* the desktop state its prompt was made from (0: from none).
Message(type, state) == [type |-> type, state |-> state]

\* Lines 84-86 and 206: the message that carries a desktop state (with
\* use_vision the state has a screenshot).
StateMessage(use_vision, state) ==
    Message(IF use_vision THEN "ImageMessage" ELSE "HumanMessage", state)

\* Faulty variant: the step limit is taken one step late.
at_step_limit_late(steps, max_steps) == steps > max_steps

\* Line 89.
at_step_limit(steps, max_steps) == steps = max_steps

\* Faulty variant: the prompt is made from the state read before the tool ran.
desktop_state_before_tool(states_read) == states_read

\* Line 202: the desktop state the next prompt is made from is the one just
\* read.
desktop_state_after_tool(states_read) == states_read + 1

\* Leaving the with-blocks of lines 68-69.
ExitContexts ==
    <<Effect("invoke", "watch_cursor.__exit__")>> \o
    (IF agent.auto_minimize THEN <<Effect("invoke", "auto_minimize.__exit__")>> ELSE <<>>)

\* Lines 59-87: the query is validated; then the contexts are entered, the
\* desktop state is read and the first two messages are made.  With
\* max_steps < 1 the loop of line 88 has no pass and line 211 reads `answer`,
\* which was never assigned.
Invoke ==
    /\ agent.pc = "none"
    /\ \E query \in QueryStrings, auto_minimize \in BOOLEAN, use_vision \in BOOLEAN,
          max_steps \in 0..MaxSteps, max_consecutive_failures \in 0..MaxFailures :
          IF is_blank(query)
          THEN /\ agent' = [pc |-> "raised", query |-> query,
                            exception |-> ValidationError("Query cannot be empty",
                                              Passed("query"), Passed(query),
                                              Passed("non-empty string"))]
               /\ UNCHANGED effects
          ELSE LET started ==
                          [pc |-> "step", query |-> query,
                           auto_minimize |-> auto_minimize, use_vision |-> use_vision,
                           max_steps |-> max_steps,
                           max_consecutive_failures |-> max_consecutive_failures,
                           steps |-> 1, consecutive_failures |-> 0,
                           states_read |-> 1,
                           messages |-> <<Message("SystemMessage", 0),
                                          StateMessage(use_vision, 1)>>,
                           action_name |-> NoAction, agent_data |-> FALSE,
                           action_response |-> "None",
                           executed |-> <<>>, llm_calls |-> <<>>]
                      entered ==
                          (IF auto_minimize
                           THEN <<Effect("invoke", "auto_minimize.__enter__")>>
                           ELSE <<>>) \o
                          <<Effect("invoke", "watch_cursor.__enter__"),
                            Effect("invoke", "desktop.get_state"),
                            Effect("invoke", "desktop.get_default_language"),
                            Effect("invoke", "registry.get_tools_prompt")>>
                  IN  IF max_steps >= 1
                      THEN /\ agent' = started
                           /\ effects' = entered
                      ELSE /\ agent' = [started EXCEPT !.pc = "raised"] @@
                                       [exception |-> BuiltinError("UnboundLocalError", "answer")]
                           /\ effects' = entered \o
                                 <<Effect("invoke", "watch_cursor.__exit__")>> \o
                                 (IF auto_minimize
                                  THEN <<Effect("invoke", "auto_minimize.__exit__")>>
                                  ELSE <<>>)
    /\ UNCHANGED <<treeVars, predVars, drawVars, imageVars, cacheVars, perfVars>>

ReturnResult(result, trailing) ==
    /\ agent' = [agent EXCEPT !.pc = "returned"] @@ [result |-> result]
    /\ effects' = effects \o trailing

\* An exception other than KeyboardInterrupt leaves invoke through the
\* with-blocks.
RaiseOut(exception, messages) ==
    /\ agent' = [agent EXCEPT !.pc = "raised", !.messages = messages] @@
                [exception |-> exception]
    /\ effects' = effects \o ExitContexts

\* Lines 89-104: the step counter has reached max_steps.
StepLimit ==
    /\ agent.pc = "step"
    /\ at_step_limit(agent.steps, agent.max_steps)
    /\ ReturnResult(AgentResult(FALSE, "None", "maximum steps"),
              <<Effect("invoke", "telemetry.capture")>> \o ExitContexts)
    /\ UNCHANGED <<treeVars, predVars, drawVars, imageVars, cacheVars, perfVars>>

\* Faulty variant: the previous desktop-state message stays in the list.
SummarizedKeepingState(messages) ==
    messages \o <<Message("HumanMessage", 0), Message("AIMessage", 0)>>

\* Lines 146-164, after the LLM loop: the previous desktop-state message is
\* replaced by a summary, the AI message is appended and the action is read.
Summarized(messages) ==
    pop(messages) \o <<Message("HumanMessage", 0), Message("AIMessage", 0)>>

\* Lines 106-164: one attempt of the step's LLM call.  ok: llm.invoke and
\* extract_agent_data returned, and the response names the action
\* action_name.
LLMInvoke ==
    /\ agent.pc = "step"
    /\ ~at_step_limit(agent.steps, agent.max_steps)
    /\ agent.max_consecutive_failures >= 1
    /\ \E ok \in BOOLEAN, action_name \in ActionNames :
          LET attempt == agent.consecutive_failures + 1
              called == effects \o <<Effect("invoke", "llm.invoke")>>
              logged == Append(agent.llm_calls,
                               [steps |-> agent.steps, attempt |-> attempt, ok |-> ok,
                                messages |-> agent.messages, at |-> Len(called)])
          IN  IF ok /\ action_name = NoAction
              THEN /\ agent' = [agent EXCEPT !.pc = "raised", !.llm_calls = logged,
                                             !.agent_data = TRUE,
                                             !.messages = Summarized(@)] @@
                                [exception |-> BuiltinError("AttributeError", "name")]
                   /\ effects' = called \o ExitContexts
              ELSE IF ok
              THEN /\ agent' = [agent EXCEPT
                         !.pc = "act", !.action_name = action_name, !.agent_data = TRUE,
                         !.llm_calls = logged,
                         !.messages = Summarized(@)]
                   /\ effects' = called
              ELSE /\ action_name = NoAction
                   /\ IF attempt = agent.max_consecutive_failures
                      THEN /\ agent' = [agent EXCEPT !.pc = "returned",
                                                     !.llm_calls = logged,
                                                     !.consecutive_failures = attempt]
                                        @@ [result |-> AgentResult(FALSE, "None", "LLM failed")]
                           /\ effects' = called \o <<Effect("invoke", "telemetry.capture")>>
                                                \o ExitContexts
                      ELSE /\ agent' = [agent EXCEPT !.consecutive_failures = attempt,
                                                     !.llm_calls = logged]
                           /\ effects' = called
    /\ UNCHANGED <<treeVars, predVars, drawVars, imageVars, cacheVars, perfVars>>

\* Lines 106-148 with max_consecutive_failures < 1: the loop of line 106 has
\* no pass, the LLM is not invoked and line 148 reads agent_data, which in
\* the first step was never assigned.
NoAttempt ==
    /\ agent.pc = "step"
    /\ ~at_step_limit(agent.steps, agent.max_steps)
    /\ agent.max_consecutive_failures < 1
    /\ IF agent.agent_data
       THEN /\ agent' = [agent EXCEPT !.pc = "act", !.messages = Summarized(@)]
            /\ UNCHANGED effects
       ELSE RaiseOut(BuiltinError("UnboundLocalError", "agent_data"), agent.messages)
    /\ UNCHANGED <<treeVars, predVars, drawVars, imageVars, cacheVars, perfVars>>

\* Lines 166-217: the action is executed; a Done action ends the loop and
\* its content is the answer, any other is followed by a fresh desktop state
\* and the next step.
Execute ==
    /\ agent.pc = "act"
    /\ \E content \in Contents :
          LET executed == effects \o <<Effect("invoke", "registry.execute")>>
              done == Append(agent.executed,
                             [tool_name |-> agent.action_name, steps |-> agent.steps])
          IN  IF startswith(agent.action_name, Done)
              THEN /\ agent' = [agent EXCEPT !.pc = "returned", !.executed = done,
                                             !.action_response = content]
                                @@ [result |-> AgentResult(TRUE, content, "None")]
                   /\ effects' = executed \o SubSeq(ExitContexts, 1, 1)
                                          \o <<Effect("invoke", "telemetry.capture")>>
                                          \o SubSeq(ExitContexts, 2, Len(ExitContexts))
              ELSE /\ agent' = [agent EXCEPT
                         !.pc = "step",
                         !.steps = @ + 1,
                         !.consecutive_failures = 0,
                         !.executed = done,
                         !.action_response = content,
                         !.states_read = @ + 1,
                         !.messages = Append(@, StateMessage(agent.use_vision,
                                          desktop_state_after_tool(agent.states_read)))]
                   /\ effects' = executed \o <<Effect("invoke", "desktop.get_state")>>
    /\ UNCHANGED <<treeVars, predVars, drawVars, imageVars, cacheVars, perfVars>>

\* Lines 218-221: Ctrl+C while the loop runs.
Interrupt ==
    /\ agent.pc \in {"step", "act"}
    /\ ReturnResult(AgentResult(FALSE, "None", "Interrupted by user"),
              ExitContexts \o <<Effect("invoke", "telemetry.flush")>>)
    /\ UNCHANGED <<treeVars, predVars, drawVars, imageVars, cacheVars, perfVars>>

InitAgent ==
    /\ TreeIdle
    /\ PredIdle
    /\ DrawIdle
    /\ LaterIdle

NextAgent ==
    \/ Invoke
    \/ StepLimit
    \/ LLMInvoke
    \/ NoAttempt
    \/ Execute
    \/ Interrupt

SpecAgent == InitAgent /\ [][NextAgent]_vars

\* The thread that called invoke runs on: the LLM and the tools return.
LiveAgent == SpecAgent /\ WF_vars(NextAgent)

\* invoke was called with a query that is empty after stripping.
BlankQueryGiven == agent.pc # "none" /\ strip(agent.query) = <<>>

\* C25: invoke with an empty or whitespace-only query raises ValidationError
\* with the message 'Query cannot be empty', and nothing else has happened:
\* no call to the desktop, the LLM, a tool or the telemetry was made.
C25_BlankQueryRejectedFirst ==
    BlankQueryGiven =>
        /\ agent.pc = "raised"
        /\ agent.exception.class = "ValidationError"
        /\ agent.exception.attrs.message = "Query cannot be empty"
        /\ effects = <<>>

C25_Witness ==
    /\ agent.pc = "raised"
    /\ Len(agent.query) = 2
    /\ agent.query[1] # agent.query[2]

\* C26: the ValidationError raised for an empty query has the attribute
\* `field`, and it equals 'query'.
C26_FieldAttribute ==
    (agent.pc = "raised" /\ agent.exception.class = "ValidationError") =>
        /\ hasattr(agent.exception, "field")
        /\ agent.exception.attrs.field = "query"

(***************************************************************************)
(* windows_use/performance.py: PerformanceCache.  _cache is a dict: the    *)
(* sequence of its items <<key, entry>> in insertion order, an entry being *)
(* the tuple (value, expiry).  `last_set` (the value of the latest set of  *)
(* each key) is history.                                                   *)
(***************************************************************************)
MaxTime == 2

MaxSize == 2

Keys == {"k1", "k2"}

\* Python's None; no cached value is the string "None".
None == "None"

Values == {"v", "w"}

\* The ttl argument of set: not given, zero, or a positive number.
Ttls == {[passed |-> FALSE, val |-> 0]} \cup {[passed |-> TRUE, val |-> n] : n \in 0..2}

DefaultTtls == {2}

contains(d, key) == \E i \in 1..Len(d) : d[i][1] = key

getitem(d, key) == d[CHOOSE i \in 1..Len(d) : d[i][1] = key][2]

RECURSIVE delitem(_, _)
delitem(d, key) ==
    IF d = <<>> THEN <<>>
    ELSE IF Head(d)[1] = key THEN Tail(d)
    ELSE <<Head(d)>> \o delitem(Tail(d), key)

keys(d) == [i \in 1..Len(d) |-> d[i][1]]

Entry(value, expiry) == [value |-> value, expiry |-> expiry]

\* Line 23.
PerformanceCache(max_size, default_ttl) ==
    [max_size |-> max_size, default_ttl |-> default_ttl, items |-> <<>>,
     last_set |-> [k \in Keys |-> None]]

\* Faulty variant: an entry is still served at the moment of its expiry.
is_fresh_at_expiry(time, expiry) == time <= expiry

\* Line 34.
is_fresh(time, expiry) == time < expiry

\* Lines 32-38 at the time `time`: the cache afterwards and the value
\* returned.
cache_get(c, key, time) ==
    IF contains(c.items, key)
    THEN IF is_fresh(time, getitem(c.items, key).expiry)
         THEN [cache |-> c, result |-> getitem(c.items, key).value]
         ELSE [cache |-> [c EXCEPT !.items = delitem(@, key)], result |-> None]
    ELSE [cache |-> c, result |-> None]

\* Line 42: ttl or self.default_ttl.
ttl_or_default(ttl, default_ttl) ==
    IF ~ttl.passed \/ ttl.val = 0 THEN default_ttl ELSE ttl.val

\* Line 48: min(self._cache.keys(), key=lambda k: self._cache[k][1]), the
\* first key in iteration order among those of least expiry.
oldest_key(d) ==
    LET least == CHOOSE i \in 1..Len(d) :
                    /\ \A j \in 1..Len(d) : d[i][2].expiry <= d[j][2].expiry
                    /\ \A j \in 1..(i - 1) : d[j][2].expiry > d[i][2].expiry
    IN  d[least][1]

\* Lines 47-49.
make_room(c) ==
    IF Len(c.items) >= c.max_size
    THEN [c EXCEPT !.items = delitem(@, oldest_key(c.items))]
    ELSE c

\* Line 51.
store(c, key, value, expiry) ==
    [c EXCEPT !.items = setitem(@, key, Entry(value, expiry)),
              !.last_set[key] = value]

\* Lines 40-51, with time.time() read as `time`.
cache_set(c, key, value, ttl, time) ==
    store(make_room(c), key, value, time + ttl_or_default(ttl, c.default_ttl))

\* Lines 53-56.
cache_clear(c) == [c EXCEPT !.items = <<>>]

\* Lines 58-71 at the time `current_time`: the cache afterwards and the
\* number returned.
cleanup_expired(c, current_time) ==
    LET expired(item) == current_time >= item[2].expiry
    IN  [cache |-> [c EXCEPT !.items = SelectSeq(@, LAMBDA item : ~expired(item))],
         result |-> Len(SelectSeq(c.items, expired))]

(***************************************************************************)
(* One caller uses the cache, call after call, and through the `cached`    *)
(* decorator.  thread[1] holds what the latest call was, what it met and   *)
(* what it returned (history).                                             *)
(***************************************************************************)
NoEntry == [had |-> FALSE, value |-> None, expiry |-> 0]

\* Whether the dict d has an item for key, and that entry.
Met(d, key) ==
    IF contains(d, key)
    THEN [had |-> TRUE, value |-> getitem(d, key).value, expiry |-> getitem(d, key).expiry]
    ELSE NoEntry

NoCall ==
    [op |-> "none", key |-> None, result |-> None, time |-> 0, met |-> NoEntry,
     expected |-> None, executed |-> FALSE, removed |-> 0, size |-> 0,
     victim |-> None, earliest |-> None]

\* The call of op on key at the time `now` with the cache c: what it met,
\* what it returned, whether the wrapped function was executed, how many
\* expired items were counted and which key was removed to make room.
Called_(op, key, c, result, executed, removed, victim) ==
    [op |-> op, key |-> key, result |-> result, time |-> now,
     met |-> IF key = None THEN NoEntry ELSE Met(c.items, key),
     expected |-> IF key = None THEN None ELSE c.last_set[key],
     executed |-> executed, removed |-> removed, size |-> Len(c.items),
     victim |-> victim,
     earliest |-> IF c.items = <<>> THEN None ELSE c.items[1][1]]

\* The key that set removes from the cache c to make room, if any.
Victim(c) ==
    IF make_room(c).items = c.items THEN None ELSE oldest_key(c.items)

Get ==
    /\ \E key \in Keys :
          LET got == cache_get(cache, key, now)
          IN  /\ cache' = got.cache
              /\ thread' = <<Called_("get", key, cache, got.result, FALSE, 0, None)>>
    /\ UNCHANGED <<now, lock, effects, treeVars, predVars, drawVars, imageVars, agentVars, perfVars>>

Set ==
    /\ \E key \in Keys, value \in Values, ttl \in Ttls :
          /\ cache' = cache_set(cache, key, value, ttl, now)
          /\ thread' = <<Called_("set", key, cache, None, FALSE, 0, Victim(cache))>>
    /\ UNCHANGED <<now, lock, effects, treeVars, predVars, drawVars, imageVars, agentVars, perfVars>>

Clear ==
    /\ cache' = cache_clear(cache)
    /\ thread' = <<Called_("clear", None, cache, None, FALSE, 0, None)>>
    /\ UNCHANGED <<now, lock, effects, treeVars, predVars, drawVars, imageVars, agentVars, perfVars>>

CleanupExpired ==
    /\ LET cleaned == cleanup_expired(cache, now)
       IN  /\ cache' = cleaned.cache
           /\ thread' = <<Called_("cleanup_expired", None, cache, None, FALSE,
                                  cleaned.result, None)>>
    /\ UNCHANGED <<now, lock, effects, treeVars, predVars, drawVars, imageVars, agentVars, perfVars>>

\* Lines 82-107: the wrapper of a cached function, called with arguments
\* whose cache key is `key`; the function, when executed, returns `value`.
Cached ==
    /\ \E key \in Keys, value \in {"v", None}, ttl \in {t \in Ttls : t.passed} :
          LET got == cache_get(cache, key, now)
          IN  IF got.result # None
              THEN /\ cache' = got.cache
                   /\ thread' = <<Called_("cached", key, cache, got.result, FALSE, 0, None)>>
              ELSE /\ cache' = cache_set(got.cache, key, value, ttl, now)
                   /\ thread' = <<Called_("cached", key, cache, value, TRUE, 0,
                                          Victim(got.cache))>>
    /\ UNCHANGED <<now, lock, effects, treeVars, predVars, drawVars, imageVars, agentVars, perfVars>>

\* time.time() advances.
Tick ==
    /\ now < MaxTime
    /\ now' = now + 1
    /\ UNCHANGED <<cache, lock, thread, effects, treeVars, predVars, drawVars,
                   imageVars, agentVars, perfVars>>

InitCache ==
    /\ now = 0
    /\ \E max_size \in 1..MaxSize, default_ttl \in DefaultTtls :
          cache = PerformanceCache(max_size, default_ttl)
    /\ lock = 0
    /\ thread = <<NoCall>>
    /\ effects = <<>>
    /\ TreeIdle
    /\ PredIdle
    /\ DrawIdle
    /\ ImageIdle
    /\ AgentIdle
    /\ RetryIdle
    /\ ScreenshotIdle

NextCache ==
    \/ Get
    \/ Set
    \/ Clear
    \/ CleanupExpired
    \/ Cached
    \/ Tick

SpecCache == InitCache /\ [][NextCache]_vars

\* The latest call.
last == thread[1]

\* C27: get(k) returns the value most recently set for k if an entry for k
\* is stored and the time is before its expiry, and None otherwise; it never
\* returns a value at or after the expiry, and an expired entry that get
\* finds is removed from the cache.
C27_GetFreshOrNone ==
    last.op = "get" =>
        /\ last.result = IF last.met.had /\ last.time < last.met.expiry
                         THEN last.expected ELSE None
        /\ last.result # None => last.time < last.met.expiry
        /\ (last.met.had /\ last.time >= last.met.expiry) =>
              ~contains(cache.items, last.key)

C27_Witness ==
    /\ last.op = "get"
    /\ last.met.had
    /\ last.time >= last.met.expiry
    /\ last.expected # None
    /\ Len(cache.items) = 1

\* C29: when set removes an entry to make room, the entry removed is the one
\* stored earliest, and it is removed only when the cache is full and the
\* key being set is not yet stored.
C29_EvictsEarliestOnlyForRoom ==
    (last.op = "set" /\ last.victim # None) =>
        /\ last.victim = last.earliest
        /\ last.size = cache.max_size
        /\ ~last.met.had

\* C30: a call of a cached function whose key has a stored entry that has
\* not expired returns the stored value and does not execute the function.
C30_SecondCallServedFromCache ==
    (last.op = "cached" /\ last.met.had /\ last.time < last.met.expiry) =>
        /\ ~last.executed
        /\ last.result = last.met.value

(***************************************************************************)
(* Several threads use the cache.  A call waits for the lock, runs the     *)
(* statements under `with self._lock` and releases it; set is taken in two *)
(* steps, lines 47-49 and line 51.                                         *)
(***************************************************************************)
Threads == 1..2

IdleThread ==
    [pc |-> "idle", op |-> "none", key |-> None, expiry |-> 0, current_time |-> 0]

Idle(t) == thread[t].pc = "idle"

\* Faulty variant: the lock is not waited for.
may_acquire_always(t) == TRUE

\* Line 27: an RLock is free, or held by the acquiring thread itself.
may_acquire(t) == lock \in {0, t}

\* Lines 40-43: set computes the expiry before it takes the lock.
CallSet(t) ==
    /\ Idle(t)
    /\ \E key \in Keys :
          thread' = [thread EXCEPT ![t] =
              [IdleThread EXCEPT !.pc = "waiting", !.op = "set", !.key = key,
                                 !.expiry = now + cache.default_ttl]]
    /\ UNCHANGED <<now, cache, lock, effects, treeVars, predVars, drawVars,
                   imageVars, agentVars, perfVars>>

\* Line 29.
CallGet(t) ==
    /\ Idle(t)
    /\ \E key \in Keys :
          thread' = [thread EXCEPT ![t] =
              [IdleThread EXCEPT !.pc = "waiting", !.op = "get", !.key = key]]
    /\ UNCHANGED <<now, cache, lock, effects, treeVars, predVars, drawVars,
                   imageVars, agentVars, perfVars>>

\* Line 53.
CallClear(t) ==
    /\ Idle(t)
    /\ thread' = [thread EXCEPT ![t] =
          [IdleThread EXCEPT !.pc = "waiting", !.op = "clear"]]
    /\ UNCHANGED <<now, cache, lock, effects, treeVars, predVars, drawVars,
                   imageVars, agentVars, perfVars>>

\* Lines 58-61: cleanup_expired reads the time before it takes the lock.
CallCleanupExpired(t) ==
    /\ Idle(t)
    /\ thread' = [thread EXCEPT ![t] =
          [IdleThread EXCEPT !.pc = "waiting", !.op = "cleanup_expired",
                             !.current_time = now]]
    /\ UNCHANGED <<now, cache, lock, effects, treeVars, predVars, drawVars,
                   imageVars, agentVars, perfVars>>

\* with self._lock: (lines 31, 45, 55, 63).
Acquire(t) ==
    /\ thread[t].pc = "waiting"
    /\ may_acquire(t)
    /\ lock' = t
    /\ thread' = [thread EXCEPT ![t].pc = "locked"]
    /\ UNCHANGED <<now, cache, effects, treeVars, predVars, drawVars,
                   imageVars, agentVars, perfVars>>

Locked(t, op) == thread[t].pc = "locked" /\ thread[t].op = op

\* The thread leaves the with-block.
Release(t) ==
    /\ thread' = [thread EXCEPT ![t] = IdleThread]
    /\ lock' = 0

\* Lines 32-38.
GetLocked(t) ==
    /\ Locked(t, "get")
    /\ cache' = cache_get(cache, thread[t].key, now).cache
    /\ Release(t)
    /\ UNCHANGED <<now, effects, treeVars, predVars, drawVars, imageVars, agentVars, perfVars>>

\* Lines 47-49.
SetMakeRoom(t) ==
    /\ Locked(t, "set")
    /\ cache' = make_room(cache)
    /\ thread' = [thread EXCEPT ![t].pc = "room"]
    /\ UNCHANGED <<now, lock, effects, treeVars, predVars, drawVars, imageVars,
                   agentVars, perfVars>>

\* Line 51.
SetStore(t) ==
    /\ thread[t].pc = "room"
    /\ cache' = store(cache, thread[t].key, "v", thread[t].expiry)
    /\ Release(t)
    /\ UNCHANGED <<now, effects, treeVars, predVars, drawVars, imageVars, agentVars, perfVars>>

\* Lines 55-56.
ClearLocked(t) ==
    /\ Locked(t, "clear")
    /\ cache' = cache_clear(cache)
    /\ Release(t)
    /\ UNCHANGED <<now, effects, treeVars, predVars, drawVars, imageVars, agentVars, perfVars>>

\* Lines 63-71.
CleanupExpiredLocked(t) ==
    /\ Locked(t, "cleanup_expired")
    /\ cache' = cleanup_expired(cache, thread[t].current_time).cache
    /\ Release(t)
    /\ UNCHANGED <<now, effects, treeVars, predVars, drawVars, imageVars, agentVars, perfVars>>

InitThreads ==
    /\ now = 0
    /\ \E max_size \in 1..MaxSize, default_ttl \in DefaultTtls :
          cache = PerformanceCache(max_size, default_ttl)
    /\ lock = 0
    /\ thread = [t \in Threads |-> IdleThread]
    /\ effects = <<>>
    /\ TreeIdle
    /\ PredIdle
    /\ DrawIdle
    /\ ImageIdle
    /\ AgentIdle
    /\ RetryIdle
    /\ ScreenshotIdle

NextThreads ==
    \/ \E t \in Threads : CallSet(t)
    \/ \E t \in Threads : CallGet(t)
    \/ \E t \in Threads : CallClear(t)
    \/ \E t \in Threads : CallCleanupExpired(t)
    \/ \E t \in Threads : Acquire(t)
    \/ \E t \in Threads : GetLocked(t)
    \/ \E t \in Threads : SetMakeRoom(t)
    \/ \E t \in Threads : SetStore(t)
    \/ \E t \in Threads : ClearLocked(t)
    \/ \E t \in Threads : CleanupExpiredLocked(t)
    \/ Tick

SpecThreads == InitThreads /\ [][NextThreads]_vars

\* The thread is inside a with-block of the lock.
InBlock(t) == thread[t].pc \in {"locked", "room"}

\* C28: the statements under the lock of two calls never interleave, so each
\* call takes effect as a whole, and the cache never holds more than
\* max_size entries.
C28_LockedAndBounded ==
    /\ \A t, u \in Threads : (InBlock(t) /\ InBlock(u)) => t = u
    /\ \A t \in Threads : InBlock(t) => lock = t
    /\ Len(cache.items) <= cache.max_size

C28_Witness ==
    /\ Len(cache.items) = cache.max_size
    /\ \E t, u \in Threads :
          /\ Locked(t, "set")
          /\ thread[u].pc = "waiting"
          /\ thread[u].op = "set"
          /\ thread[u].key # thread[t].key

(***************************************************************************)
(* windows_use/performance.py: RetryManager.  The delays are floats; the   *)
(* values given here are whole numbers, which floats hold exactly.  What   *)
(* func does at each call is an input.  `trace` is history: the calls of   *)
(* func and the sleeps, in order.                                          *)
(***************************************************************************)
MaxRetries == 2

\* The arguments of RetryManager.__init__ (lines 268-278).
RetryCounts == -1..MaxRetries

BaseDelays == {-1, 0, 1, 2}

MaxDelays == {-1, 0, 3}

BackoffFactors == {-2, 0, 1, 2}

\* b ** n for an int n >= 0 (0.0 ** 0 is 1.0).
RECURSIVE pow(_, _)
pow(b, n) == IF n = 0 THEN 1 ELSE b * pow(b, n - 1)

min(a, b) == IF a <= b THEN a ELSE b

\* Line 284: range(self.max_retries + 1).
attempts(max_retries) == max_retries + 1

\* Faulty variant: the first exception is kept.
caught_first(last_exception, e) ==
    IF last_exception.class = "None" THEN e ELSE last_exception

\* Line 288: last_exception = e.
caught(last_exception, e) == e

\* Line 290.
is_last_attempt(attempt, max_retries) == attempt = max_retries

\* Faulty variant: the delay is not capped.
delay_uncapped(base_delay, backoff_factor, attempt, max_delay) ==
    base_delay * pow(backoff_factor, attempt)

\* Lines 293-296.
delay(base_delay, backoff_factor, attempt, max_delay) ==
    min(base_delay * pow(backoff_factor, attempt), max_delay)

\* What a call of func does: it returns, or it raises an exception of the
\* class named (KeyboardInterrupt is no Exception).
FuncOutcomes == {"returned", "Exception", "KeyboardInterrupt"}

\* An event of the trace: what is "func" (n: the number of the call) or
\* "sleep" (n: the delay).
Event(what, did, n) == [what |-> what, outcome |-> did, n |-> n]

\* An exception, and the call of func that raised it (0: none did).
Raised(class, n) == [class |-> class, call |-> n]

\* The calls of func made so far.
calls == Len(SelectSeq(retry.trace, LAMBDA ev : ev.what = "func"))

\* Lines 280-284: retry is called.
Retry ==
    /\ retry.pc = "none"
    /\ \E max_retries \in RetryCounts, base_delay \in BaseDelays,
          max_delay \in MaxDelays, backoff_factor \in BackoffFactors :
          retry' = [pc |-> IF 0 < attempts(max_retries) THEN "loop" ELSE "after",
                    max_retries |-> max_retries, base_delay |-> base_delay,
                    max_delay |-> max_delay, backoff_factor |-> backoff_factor,
                    attempt |-> 0, last_exception |-> Raised("None", 0),
                    trace |-> <<>>,
                    result |-> 0, exception |-> Raised("None", 0)]
    /\ UNCHANGED <<screenshot_manager, effects, treeVars, predVars, drawVars, imageVars,
                   cacheVars, agentVars>>

\* Lines 285-305: one pass of the loop.  func is called; when it raises an
\* Exception and the attempt is not the last, retry sleeps and goes on.
Attempt ==
    /\ retry.pc = "loop"
    /\ \E did \in FuncOutcomes :
          LET n == calls + 1
              called == Append(retry.trace, Event("func", did, n))
              d == delay(retry.base_delay, retry.backoff_factor, retry.attempt,
                         retry.max_delay)
          IN  IF did = "returned"
              THEN retry' = [retry EXCEPT !.pc = "returned", !.trace = called,
                                          !.result = n]
              ELSE IF did # "Exception"
              THEN retry' = [retry EXCEPT !.pc = "raised", !.trace = called,
                                          !.exception = Raised(did, n)]
              ELSE IF is_last_attempt(retry.attempt, retry.max_retries)
              THEN retry' = [retry EXCEPT !.pc = "after", !.trace = called,
                                          !.last_exception = caught(retry.last_exception, Raised(did, n))]
              ELSE IF d < 0
              THEN \* time.sleep raises ValueError for a negative length
                   retry' = [retry EXCEPT !.pc = "raised", !.trace = called,
                                          !.last_exception = caught(retry.last_exception, Raised(did, n)),
                                          !.exception = Raised("ValueError", 0)]
              ELSE retry' = [retry EXCEPT
                                !.pc = IF retry.attempt + 1 < attempts(retry.max_retries)
                                       THEN "loop" ELSE "after",
                                !.attempt = @ + 1,
                                !.trace = Append(called, Event("sleep", "slept", d)),
                                !.last_exception = caught(retry.last_exception, Raised(did, n))]
    /\ UNCHANGED <<screenshot_manager, effects, treeVars, predVars, drawVars, imageVars,
                   cacheVars, agentVars>>

\* Line 307: raise last_exception (raising None is a TypeError).
RaiseLast ==
    /\ retry.pc = "after"
    /\ retry' = [retry EXCEPT !.pc = "raised",
                              !.exception = IF retry.last_exception.class = "None"
                                            THEN Raised("TypeError", 0)
                                            ELSE retry.last_exception]
    /\ UNCHANGED <<screenshot_manager, effects, treeVars, predVars, drawVars, imageVars,
                   cacheVars, agentVars>>

InitRetry ==
    /\ TreeIdle
    /\ PredIdle
    /\ DrawIdle
    /\ LaterIdle

NextRetry ==
    \/ Retry
    \/ Attempt
    \/ RaiseLast

SpecRetry == InitRetry /\ [][NextRetry]_vars

\* The thread that called retry runs on: func and time.sleep return.
LiveRetry == SpecRetry /\ WF_vars(NextRetry)

RetryCalled == retry.pc # "none"

RetryEnded == retry.pc \in {"returned", "raised"}

\* The events of the trace that are calls of func.
FuncCalls == {i \in 1..Len(retry.trace) : retry.trace[i].what = "func"}

Sleeps == {i \in 1..Len(retry.trace) : retry.trace[i].what = "sleep"}

\* func was called max_retries + 1 times and every call raised an Exception.
AllCallsFailed ==
    /\ calls = retry.max_retries + 1
    /\ \A i \in FuncCalls : retry.trace[i].outcome = "Exception"

\* What C31 says of a state of retry.
RetryBounded ==
    (RetryCalled /\ retry.max_retries >= 0) =>
        /\ calls <= retry.max_retries + 1
        /\ \A i \in FuncCalls :
              retry.trace[i].outcome = "returned" =>
                  /\ i = Len(retry.trace)
                  /\ retry.pc = "returned"
                  /\ retry.result = retry.trace[i].n
        /\ retry.pc = "returned" =>
              \E i \in FuncCalls : retry.trace[i].outcome = "returned"
        /\ (RetryEnded /\ AllCallsFailed) =>
              /\ retry.pc = "raised"
              /\ retry.exception = Raised("Exception", calls)

\* C31: with max_retries >= 0, retry calls func at most max_retries + 1
\* times and comes to an end; the first call that succeeds is the last call
\* and its result is returned; when all max_retries + 1 calls have failed
\* the exception of the last call is raised.
C31_BoundedRetries == []RetryBounded /\ (RetryCalled ~> RetryEnded)

C31_Witness ==
    /\ retry.pc = "raised"
    /\ retry.max_retries = MaxRetries
    /\ AllCallsFailed

\* C32: retry sleeps once between two consecutive calls of func and not after
\* the last; the sleep after failed attempt a (from 0) lasts
\* min(base_delay * backoff_factor^a, max_delay); no sleep is longer than
\* max_delay, and with backoff_factor >= 1 no sleep is shorter than the one
\* before it.
C32_BackoffDelays ==
    RetryCalled =>
        /\ \A i \in FuncCalls :
              i > 1 => (retry.trace[i - 1].what = "sleep" /\ i - 2 \in FuncCalls)
        /\ \A i \in Sleeps : i - 1 \in FuncCalls
        /\ RetryEnded => Sleeps = {} \/ Len(retry.trace) \notin Sleeps
        /\ (retry.pc = "after") => Len(retry.trace) \notin Sleeps
        /\ \A i \in Sleeps :
              LET a == retry.trace[i - 1].n - 1
                  expected == IF retry.base_delay * pow(retry.backoff_factor, a)
                                    <= retry.max_delay
                              THEN retry.base_delay * pow(retry.backoff_factor, a)
                              ELSE retry.max_delay
              IN  /\ retry.trace[i].n = expected
                  /\ retry.trace[i].n <= retry.max_delay
        /\ retry.backoff_factor >= 1 =>
              \A i, j \in Sleeps : i < j => retry.trace[i].n <= retry.trace[j].n

C32_Witness ==
    /\ retry.pc = "raised"
    /\ retry.backoff_factor = 2
    /\ Cardinality(Sleeps) = MaxRetries
    /\ \E i, j \in Sleeps : retry.trace[i].n < retry.trace[j].n
    /\ \E i \in Sleeps : retry.trace[i].n = retry.max_delay

(***************************************************************************)
(* windows_use/performance.py: ScreenshotManager.  A screenshot is known   *)
(* by the number of the capture that made it.  `call` is the latest call   *)
(* of get_screenshot: its argument, the time it read, the _last_screenshot *)
(* it met, the captures made before it, and what it did.                   *)
(***************************************************************************)
MaxCaptures == 3

\* cache_ttl given to ScreenshotManager.__init__ (line 216; default 1.0).
CacheTtls == {0, 1, 2}

\* _last_screenshot: None, or the tuple (screenshot, timestamp).
NoScreenshot == [stored |-> FALSE, image |-> 0, timestamp |-> 0]

LastScreenshot(image, timestamp) ==
    [stored |-> TRUE, image |-> image, timestamp |-> timestamp]

\* Faulty variant: a screenshot of age cache_ttl still counts as young.
is_cached_at_ttl(current_time, timestamp, cache_ttl) ==
    current_time - timestamp <= cache_ttl

\* Line 229.
is_cached(current_time, timestamp, cache_ttl) ==
    current_time - timestamp < cache_ttl

NoGetScreenshot ==
    [force_new |-> FALSE, current_time |-> 0, met |-> NoScreenshot, had |-> 0,
     captured |-> FALSE, result |-> 0, done |-> FALSE]

\* Lines 216-220.
NewScreenshotManager ==
    /\ screenshot_manager.pc = "none"
    /\ \E cache_ttl \in CacheTtls :
          screenshot_manager' = [pc |-> "idle", cache_ttl |-> cache_ttl,
                                 last_screenshot |-> NoScreenshot, captures |-> 0,
                                 call |-> NoGetScreenshot]
    /\ UNCHANGED <<retry, effects, treeVars, predVars, drawVars, imageVars, cacheVars,
                   agentVars>>

\* Lines 222-231: the time is read and, under the lock, a stored screenshot
\* that is young enough is returned.
GetScreenshot ==
    /\ screenshot_manager.pc = "idle"
    /\ screenshot_manager.captures < MaxCaptures
    /\ \E force_new \in BOOLEAN :
          LET current_time == now
              met == screenshot_manager.last_screenshot
              started == [force_new |-> force_new, current_time |-> current_time,
                          met |-> met, had |-> screenshot_manager.captures,
                          captured |-> FALSE, result |-> 0, done |-> FALSE]
          IN  IF ~force_new /\ met.stored
                 /\ is_cached(current_time, met.timestamp, screenshot_manager.cache_ttl)
              THEN screenshot_manager' =
                       [screenshot_manager EXCEPT
                           !.call = [started EXCEPT !.result = met.image, !.done = TRUE]]
              ELSE screenshot_manager' =
                       [screenshot_manager EXCEPT !.pc = "capture", !.call = started]
    /\ UNCHANGED <<retry, effects, treeVars, predVars, drawVars, imageVars, cacheVars,
                   agentVars>>

\* Lines 233-239 (and 241-250): a screenshot is captured, stored with the
\* time read on line 224 and returned.
CaptureScreenshot ==
    /\ screenshot_manager.pc = "capture"
    /\ LET screenshot == screenshot_manager.captures + 1
       IN  screenshot_manager' =
               [screenshot_manager EXCEPT
                   !.pc = "idle",
                   !.captures = screenshot,
                   !.last_screenshot =
                       LastScreenshot(screenshot, screenshot_manager.call.current_time),
                   !.call = [@ EXCEPT !.captured = TRUE, !.result = screenshot,
                                      !.done = TRUE]]
    /\ UNCHANGED <<retry, effects, treeVars, predVars, drawVars, imageVars, cacheVars,
                   agentVars>>

\* Lines 252-262: has_screen_changed captures a screenshot to compare and
\* stores nothing.
HasScreenChanged ==
    /\ screenshot_manager.pc = "idle"
    /\ screenshot_manager.captures < MaxCaptures
    /\ screenshot_manager.last_screenshot.stored
    /\ screenshot_manager' = [screenshot_manager EXCEPT !.captures = @ + 1]
    /\ UNCHANGED <<retry, effects, treeVars, predVars, drawVars, imageVars, cacheVars,
                   agentVars>>

InitScreenshot ==
    /\ TreeIdle
    /\ PredIdle
    /\ DrawIdle
    /\ LaterIdle

NextScreenshot ==
    \/ NewScreenshotManager
    \/ GetScreenshot
    \/ CaptureScreenshot
    \/ HasScreenChanged
    \/ Tick

SpecScreenshot == InitScreenshot /\ [][NextScreenshot]_vars

\* The latest call of get_screenshot has returned.
GotScreenshot == screenshot_manager.pc = "idle" /\ screenshot_manager.call.done

\* The latest call met a stored screenshot younger than cache_ttl and was
\* not told to take a new one.
ServedFromStore ==
    LET c == screenshot_manager.call
    IN  /\ ~c.force_new
        /\ c.met.stored
        /\ c.current_time - c.met.timestamp < screenshot_manager.cache_ttl

\* C33: get_screenshot, when force_new is false and a screenshot younger than
\* cache_ttl is stored, captures nothing and returns the stored screenshot;
\* in every other case it captures a screenshot that did not exist before,
\* stores it and returns it.
C33_StoredOrCaptured ==
    GotScreenshot =>
        LET c == screenshot_manager.call
        IN  IF ServedFromStore
            THEN /\ ~c.captured
                 /\ c.result = c.met.image
                 /\ screenshot_manager.last_screenshot = c.met
            ELSE /\ c.captured
                 /\ c.result # c.met.image
                 /\ c.result > c.had
                 /\ screenshot_manager.last_screenshot.stored
                 /\ screenshot_manager.last_screenshot.image = c.result

\* A stored screenshot exactly cache_ttl old was met and replaced.
C33_Witness ==
    /\ GotScreenshot
    /\ ~screenshot_manager.call.force_new
    /\ screenshot_manager.call.met.stored
    /\ screenshot_manager.cache_ttl > 0
    /\ screenshot_manager.call.current_time - screenshot_manager.call.met.timestamp
          = screenshot_manager.cache_ttl
    /\ screenshot_manager.call.captured

(***************************************************************************)
(* Properties of Agent.invoke.                                             *)
(***************************************************************************)
\* invoke was called with a query that passed line 60.
Invoked == agent.pc # "none" /\ ~is_blank(agent.query)

InvokeEnded == agent.pc \in {"returned", "raised"}

Interrupted == agent.pc = "returned" /\ agent.result.error = "Interrupted by user"

LLMCalls == 1..Len(agent.llm_calls)

\* The LLM invocations made in step k.
CallsOfStep(k) == {i \in LLMCalls : agent.llm_calls[i].steps = k}

NamedDone(tool_name) ==
    Len(tool_name) >= 4 /\ SubSeq(tool_name, 1, 4) = <<"D", "o", "n", "e">>

\* What C34 says of a state of invoke.
StepBudget ==
    (Invoked /\ agent.max_steps >= 1) =>
        /\ agent.steps <= agent.max_steps
        /\ Len(agent.executed) <= agent.max_steps - 1
        /\ \A i \in LLMCalls : agent.llm_calls[i].steps < agent.max_steps
        /\ \A i \in 1..Len(agent.executed) : agent.executed[i].steps < agent.max_steps
        /\ (agent.pc = "returned" /\ agent.steps = agent.max_steps /\ ~Interrupted) =>
              agent.result = AgentResult(FALSE, "None", "maximum steps")
        /\ (agent.pc = "returned" /\ agent.result.error = "maximum steps") =>
              /\ agent.steps = agent.max_steps
              /\ \A i \in 1..Len(agent.executed) : ~NamedDone(agent.executed[i].tool_name)

\* C34: with max_steps >= 1 invoke comes to an end, having executed at most
\* max_steps - 1 tool actions; when the step counter reaches max_steps it
\* returns AgentResult(is_done=False) with the maximum-steps error, and in
\* that step neither the LLM is invoked nor a tool executed.
C34_StepLimit == []StepBudget /\ ((Invoked /\ agent.max_steps >= 1) ~> InvokeEnded)

C34_Witness ==
    /\ agent.pc = "returned"
    /\ agent.result.error = "maximum steps"
    /\ agent.max_steps = MaxSteps
    /\ Len(agent.executed) = MaxSteps - 1
    /\ \E i \in LLMCalls : ~agent.llm_calls[i].ok

\* C35: in one step the LLM is invoked at most max_consecutive_failures
\* times; the count of failures starts anew in every step; a successful
\* response is the last invocation of its step; and when all
\* max_consecutive_failures attempts of a step have failed, invoke returns
\* AgentResult(is_done=False) with the LLM error, raises nothing and executes
\* no tool in that step.
C35_LLMRetries ==
    Invoked =>
        /\ \A k \in 1..agent.steps :
              Cardinality(CallsOfStep(k)) <= agent.max_consecutive_failures
        /\ \A i \in LLMCalls :
              LET c == agent.llm_calls[i]
              IN  /\ c.attempt = 1 + Cardinality({j \in CallsOfStep(c.steps) : j < i})
                  /\ c.ok => \A j \in CallsOfStep(c.steps) : j <= i
        /\ ( /\ InvokeEnded
             /\ ~Interrupted
             /\ agent.steps < agent.max_steps
             /\ Cardinality(CallsOfStep(agent.steps)) = agent.max_consecutive_failures
             /\ \A i \in CallsOfStep(agent.steps) : ~agent.llm_calls[i].ok ) =>
              /\ agent.pc = "returned"
              /\ agent.result = AgentResult(FALSE, "None", "LLM failed")
              /\ \A i \in 1..Len(agent.executed) : agent.executed[i].steps # agent.steps

\* C36: invoke returns is_done=True only when the tool executed last has a
\* name that starts with 'Done', and the content returned is the content of
\* that tool's response; a return for the step limit, for failed LLM calls or
\* for an interrupt has is_done=False.
C36_DoneOnlyByDoneTool ==
    (Invoked /\ agent.pc = "returned") =>
        /\ agent.result.is_done =>
              /\ agent.executed # <<>>
              /\ NamedDone(agent.executed[Len(agent.executed)].tool_name)
              /\ agent.result.content = agent.action_response
        /\ agent.result.error \in {"maximum steps", "LLM failed", "Interrupted by user"} =>
              ~agent.result.is_done
        /\ agent.result.is_done \/ agent.result.error # "None"

C36_Witness ==
    /\ agent.pc = "returned"
    /\ agent.result.is_done
    /\ agent.result.content = "c2"
    /\ Len(agent.executed) = 2
    /\ agent.executed[1].tool_name = DragTool

\* The places in the history where the desktop state was read, and where a
\* tool was executed.
StateReads == EffectsOf("invoke", "desktop.get_state")

Executions == EffectsOf("invoke", "registry.execute")

\* C37: every LLM invocation is handed the desktop state read latest, and
\* that state was read after the latest tool execution; the state is read
\* once before the first step and once right after every tool execution that
\* is not a Done action, and not after a Done action.
C37_FreshObservation ==
    Invoked =>
        /\ \A i \in LLMCalls :
              LET c == agent.llm_calls[i]
                  reads == {r \in StateReads : r < c.at}
                  execs == {x \in Executions : x < c.at}
              IN  /\ reads # {}
                  /\ \A x \in execs : \E r \in reads : r > x
                  /\ c.messages[Len(c.messages)].state = Cardinality(reads)
        /\ Cardinality(Executions) = Len(agent.executed)
        /\ Cardinality(StateReads) =
              1 + Cardinality({i \in 1..Len(agent.executed) :
                                  ~NamedDone(agent.executed[i].tool_name)})
        /\ \A x \in Executions :
              LET k == Cardinality({y \in Executions : y <= x})
              IN  IF NamedDone(agent.executed[k].tool_name)
                  THEN \A r \in StateReads : r < x
                  ELSE x + 1 \in StateReads

C37_Witness ==
    /\ Invoked
    /\ \E i \in LLMCalls :
              /\ agent.llm_calls[i].steps = 2
              /\ agent.llm_calls[i].attempt = 2
              /\ agent.llm_calls[i].messages[4].state = 2

\* C38: the list handed to the LLM in step k has 2k messages, the first is
\* the system message and only the last carries a desktop state; a failed
\* attempt leaves the list as it was, and a completed step replaces the last
\* message by a summary without state and appends the AI message and a new
\* desktop-state message.
C38_MessageList ==
    Invoked =>
        \A i \in LLMCalls :
            LET c == agent.llm_calls[i]
                m == c.messages
            IN  /\ Len(m) = 2 * c.steps
                /\ m[1] = Message("SystemMessage", 0)
                /\ \A j \in 1..(Len(m) - 1) : m[j].state = 0
                /\ m[Len(m)].state # 0
                /\ m[Len(m)].type \in {"HumanMessage", "ImageMessage"}
                /\ (i > 1 /\ agent.llm_calls[i - 1].steps = c.steps) =>
                      agent.llm_calls[i - 1].messages = m
                /\ (i > 1 /\ agent.llm_calls[i - 1].steps # c.steps) =>
                      LET before == agent.llm_calls[i - 1].messages
                      IN  /\ agent.llm_calls[i - 1].steps = c.steps - 1
                          /\ m = SubSeq(before, 1, Len(before) - 1) \o
                                 <<Message("HumanMessage", 0), Message("AIMessage", 0),
                                   m[Len(m)]>>

C38_Witness ==
    /\ Invoked
    /\ \E i \in LLMCalls :
              /\ agent.llm_calls[i].steps = MaxSteps - 1
              /\ agent.llm_calls[i].attempt = MaxFailures
              /\ agent.llm_calls[i].messages[3].type = "AIMessage"
              /\ agent.llm_calls[i].messages[4].type = "ImageMessage"

====
